---------------------------- MODULE Spec2Model ----------------------------
(***************************************************************************)
(* A model of the Ecosystem simulator's concurrent core:                   *)
(*   - Utils::Threading::ReadWriteLock          (specification SpecRW)     *)
(*   - Terrain::Update / Terrain::ConsumeGrass and the parallel terrain    *)
(*     rule of ParallelEcoSystem                (specification SpecTerrain)*)
(*   - ParallelEcoSystem::ParallelUpdate, the five-phase tick run on the   *)
(*     ThreadPool                               (specification SpecTick,   *)
(*     and SpecPair: two instances started from the same state)            *)
(* Floating point quantities are fixed-point integers, One standing for    *)
(* 1.0f; products and quotients truncate.                                  *)
(***************************************************************************)
EXTENDS Integers, Sequences, FiniteSets, TLC

VARIABLES
  rwl,        \* the ReadWriteLock under test (readers_, writers_, write_requests_, ...)
  terr,       \* a Terrain object: its layers, rates and thresholds
  terrLog,    \* what the last Terrain operation did (observed, not program state)
  eco         \* ParallelEcoSystem instances, one record per instance

vars == <<rwl, terr, terrLog, eco>>

(***************************************************************************)
(* Bounds of the model.                                                    *)
(***************************************************************************)
NumRWThreads == 3

RWThreads == 1..NumRWThreads

(***************************************************************************)
(* Utils::Threading::ReadWriteLock.  Every method runs under mutex_, so    *)
(* each call, up to the point where it blocks in a condition variable, is  *)
(* one atomic step.  st[t] is where thread t stands with respect to the    *)
(* lock; sig is the set of waiting threads a notify_all has woken (or that *)
(* woke spuriously) and that have not yet re-evaluated their predicate.    *)
(***************************************************************************)
NewRWLock(threads) ==
  [readers_ |-> 0, writers_ |-> 0, write_requests_ |-> 0,
   st |-> [t \in threads |-> "none"], sig |-> {}]

\* ReadLock's wait predicate with the pending-writer test dropped.
ReadPredIgnoringRequests(l) == l.writers_ = 0

\* ReadLock's wait predicate (Threading.cpp:102).
ReadPred(l) == l.writers_ = 0 /\ l.write_requests_ = 0

\* WriteLock's wait predicate with the reader test dropped.
WritePredIgnoringReaders(l) == l.writers_ = 0

\* WriteLock's wait predicate (Threading.cpp:117).
WritePred(l) == l.writers_ = 0 /\ l.readers_ = 0

Waiting(l, kind) == {t \in DOMAIN l.st : l.st[t] = kind}

\* ReadWriteLock::ReadLock, from the call to the return or the first wait.
RWReadLock(l, t) ==
  IF ReadPred(l)
    THEN [l EXCEPT !.readers_ = @ + 1, !.st[t] = "read"]
    ELSE [l EXCEPT !.st[t] = "rwait"]

\* A woken reader re-evaluates the predicate inside read_condition_.wait.
RWReadRecheck(l, t) ==
  IF ReadPred(l)
    THEN [l EXCEPT !.readers_ = @ + 1, !.st[t] = "read", !.sig = @ \ {t}]
    ELSE [l EXCEPT !.sig = @ \ {t}]

\* ReadWriteLock::ReadUnlock.
RWReadUnlock(l, t) ==
  [l EXCEPT !.readers_ = @ - 1, !.st[t] = "none",
            !.sig = IF l.readers_ - 1 = 0 THEN @ \cup Waiting(l, "wwait") ELSE @]

\* ReadWriteLock::WriteLock, from the call to the return or the first wait.
RWWriteLock(l, t) ==
  IF WritePred(l)
    THEN [l EXCEPT !.writers_ = @ + 1, !.st[t] = "write"]
    ELSE [l EXCEPT !.write_requests_ = @ + 1, !.st[t] = "wwait"]

\* A woken writer re-evaluates the predicate inside write_condition_.wait.
RWWriteRecheck(l, t) ==
  IF WritePred(l)
    THEN [l EXCEPT !.write_requests_ = @ - 1, !.writers_ = @ + 1,
                   !.st[t] = "write", !.sig = @ \ {t}]
    ELSE [l EXCEPT !.sig = @ \ {t}]

\* ReadWriteLock::WriteUnlock.
RWWriteUnlock(l, t) ==
  [l EXCEPT !.writers_ = @ - 1, !.st[t] = "none",
            !.sig = @ \cup Waiting(l, "rwait") \cup Waiting(l, "wwait")]

\* A condition variable may wake a waiter without a notification.
RWSpurious(l, t) == [l EXCEPT !.sig = @ \cup {t}]

(***************************************************************************)
(* SpecRW: NumRWThreads threads calling the lock in any order, each        *)
(* unlocking only what it holds.                                           *)
(***************************************************************************)
ReadLock(t) ==
  /\ rwl.st[t] = "none"
  /\ rwl' = RWReadLock(rwl, t)
  /\ UNCHANGED <<terr, terrLog, eco>>

ReadLockWake(t) ==
  /\ rwl.st[t] = "rwait" /\ t \in rwl.sig
  /\ rwl' = RWReadRecheck(rwl, t)
  /\ UNCHANGED <<terr, terrLog, eco>>

ReadUnlock(t) ==
  /\ rwl.st[t] = "read"
  /\ rwl' = RWReadUnlock(rwl, t)
  /\ UNCHANGED <<terr, terrLog, eco>>

WriteLock(t) ==
  /\ rwl.st[t] = "none"
  /\ rwl' = RWWriteLock(rwl, t)
  /\ UNCHANGED <<terr, terrLog, eco>>

WriteLockWake(t) ==
  /\ rwl.st[t] = "wwait" /\ t \in rwl.sig
  /\ rwl' = RWWriteRecheck(rwl, t)
  /\ UNCHANGED <<terr, terrLog, eco>>

WriteUnlock(t) ==
  /\ rwl.st[t] = "write"
  /\ rwl' = RWWriteUnlock(rwl, t)
  /\ UNCHANGED <<terr, terrLog, eco>>

SpuriousWakeup(t) ==
  /\ rwl.st[t] \in {"rwait", "wwait"} /\ t \notin rwl.sig
  /\ rwl' = RWSpurious(rwl, t)
  /\ UNCHANGED <<terr, terrLog, eco>>

RWInit ==
  /\ rwl = NewRWLock(RWThreads)
  /\ terr = <<>>
  /\ terrLog = <<>>
  /\ eco = <<>>

RWNext ==
  \/ \E t \in RWThreads : ReadLock(t)
  \/ \E t \in RWThreads : ReadLockWake(t)
  \/ \E t \in RWThreads : ReadUnlock(t)
  \/ \E t \in RWThreads : WriteLock(t)
  \/ \E t \in RWThreads : WriteLockWake(t)
  \/ \E t \in RWThreads : WriteUnlock(t)
  \/ \E t \in RWThreads : SpuriousWakeup(t)

SpecRW == RWInit /\ [][RWNext]_vars

Readers == Waiting(rwl, "read")
Writers == Waiting(rwl, "write")
PendingWriters == Waiting(rwl, "wwait")

\* C1: at most one thread holds the write lock, and no thread holds a read
\* lock while a thread holds the write lock.
C1_WriteExclusive ==
  /\ Cardinality(Writers) <= 1
  /\ Writers # {} => Readers = {}

\* C1 witness: a writer holds the lock while a reader and another writer wait.
C1_Witness ==
  /\ Writers # {}
  /\ Waiting(rwl, "rwait") # {}
  /\ PendingWriters # {}

\* C2: a ReadLock call completes only when no thread holds the write lock and
\* no WriteLock call is pending; a WriteLock call completes only when no
\* thread is reading (the reader count is zero).
C2_WritersBlockReaders ==
  [][\A t \in RWThreads :
       /\ (rwl.st[t] # "read" /\ rwl'.st[t] = "read")
            => (Writers = {} /\ PendingWriters = {} /\ rwl.write_requests_ = 0)
       /\ (rwl.st[t] # "write" /\ rwl'.st[t] = "write")
            => (Readers = {} /\ rwl.readers_ = 0)]_vars

\* C2 witness: a reader is held back by a pending writer that itself waits for
\* a reader already inside.
C2_Witness ==
  /\ Readers # {}
  /\ PendingWriters # {}
  /\ Waiting(rwl, "rwait") # {}
  /\ Writers = {}

\* A thread that holds the lock releases it, and a woken thread evaluates its
\* predicate again; nothing obliges a thread to call ReadLock or WriteLock,
\* nor a wait to wake without a notification.
RWFairness ==
  \A t \in RWThreads :
    /\ WF_vars(ReadUnlock(t)) /\ WF_vars(WriteUnlock(t))
    /\ WF_vars(ReadLockWake(t)) /\ WF_vars(WriteLockWake(t))

SpecRWLive == SpecRW /\ RWFairness

\* C40: no thread sleeps in ReadLock or WriteLock, unnotified, while its
\* predicate holds; and a thread waiting in WriteLock comes to hold the write
\* lock.
C40_WriterEventuallyAcquires ==
  /\ [](\A t \in RWThreads :
          /\ (rwl.st[t] = "rwait" /\ t \notin rwl.sig) => ~ReadPred(rwl)
          /\ (rwl.st[t] = "wwait" /\ t \notin rwl.sig) => ~WritePred(rwl))
  /\ \A t \in RWThreads : (rwl.st[t] = "wwait") ~> (rwl.st[t] = "write")


(***************************************************************************)
(* Terrain.  Energies, rates, fractions and dt are fixed-point numbers.    *)
(***************************************************************************)
One == 8
GridW == 3
GridH == 1
MaxTerrainOps == 2

FMul(a, b) == (a * b) \div One
FDiv(a, b) == (a * One) \div b

Min(a, b) == IF a < b THEN a ELSE b
Max(a, b) == IF a > b THEN a ELSE b

\* Clamp(min, max, val) of Terrain.cpp.
Clamp(lo, hi, val) == IF val > hi THEN hi ELSE IF val < lo THEN lo ELSE val

Cells == (0..GridW - 1) \X (0..GridH - 1)

\* The order in which Terrain::Update visits the cells: y outer, x inner.
CellOrder == [i \in 1..GridW * GridH |-> <<(i - 1) % GridW, (i - 1) \div GridW>>]

\* The values the setup panel's ranges are sampled at.
GrassMaxEnergies == {2 * One}
FertMaxEnergies == {2 * One}
GrassRates == {One \div 8, One \div 2}
FertRates == {One \div 8}
Dts == {One, 2 * One}
InitGrass == {0, 2 * One - One \div 4, 2 * One}
InitFertFractions == {0, One}
EatFractions == {One \div 2, One}

\* terrLog: the last operation, its arguments and result, for an Update the
\* pair <<fertilizer debited for growth, grass added>> of each cell step, and
\* whether only Terrain's own operations have acted.
NoGrowth == [c \in Cells |-> <<0, 0>>]

NoLog == [op |-> "none", dt |-> 0, ret |-> 0, cell |-> <<0, 0>>, growth |-> NoGrowth,
          serial |-> TRUE]

\* The states Terrain::Init can leave: per cell a growth rate and a fertilizer
\* rate from the configured ranges, grass 0 or a patch value, the fertilizer
\* threshold's first member a fraction and the fertilizer that fraction of the
\* maximum.
TerrainInitStates ==
  { [mGrassLayer |-> g,
     mFertilizerLayer |-> [c \in Cells |-> FMul(fr[c], fm)],
     mGrassLayerRate |-> gr,
     mFertilizerRate |-> frt,
     mGrassThresh |-> [c \in Cells |-> <<0, gm>>],
     mFertilizerThresh |-> [c \in Cells |-> <<fr[c], fm>>],
     mfGRateLo |-> One \div 8, mfGRateHi |-> One \div 2,
     mfFRateLo |-> One \div 8, mfFRateHi |-> One \div 8,
     nOps |-> 0] :
    g \in [Cells -> InitGrass], fr \in [Cells -> InitFertFractions],
    gr \in [Cells -> GrassRates], frt \in [Cells -> FertRates],
    gm \in GrassMaxEnergies, fm \in FertMaxEnergies }

InGrid(p) == p[1] >= 0 /\ p[1] < GridW /\ p[2] >= 0 /\ p[2] < GridH

neighbourCells ==
  {<<-1, 1>>, <<0, 1>>, <<1, 1>>, <<-1, 0>>, <<1, 0>>, <<-1, -1>>, <<0, -1>>, <<1, -1>>}

\* Terrain::GetLowestGrass: the in-grid neighbours of src holding the least
\* grass; the random visiting order picks any one of them.  Empty when src has
\* no in-grid neighbour (the (-1,-1) result).
GetLowestGrass(t, src) ==
  LET nb == {p \in {<<src[1] + d[1], src[2] + d[2]>> : d \in neighbourCells} : InGrid(p)}
  IN {p \in nb : \A q \in nb : t.mGrassLayer[p] <= t.mGrassLayer[q]}

\* The body of Terrain::Update's loop for cell c: the set of states it can
\* leave, each with the fertilizer it debited for growth and the grass that
\* was added, to c or to the neighbour.
UpdateCell(s, c, dt) ==
  LET t == s.t
      fmax == t.mFertilizerThresh[c][2]
      gmax == t.mGrassThresh[c][2]
      f1 == Clamp(t.mFertilizerThresh[c][1], fmax,
                  t.mFertilizerLayer[c] + FMul(FMul(t.mFertilizerRate[c], dt), fmax))
      rate == FMul(FMul(t.mGrassLayerRate[c], dt), gmax)
      cv == Min(f1, rate)
      Finish(t2, v, added) ==
        LET f2 == Clamp(0, fmax, f1 - v)
        IN [t |-> [t2 EXCEPT !.mFertilizerLayer[c] = f2,
                             !.mFertilizerThresh[c] = <<FDiv(f2, fmax), fmax>>],
            growth |-> [x \in Cells |-> IF x = c THEN <<f1 - f2, added>> ELSE s.growth[x]]]
  IN IF t.mGrassLayer[c] >= gmax
       THEN IF GetLowestGrass(t, c) = {}
              THEN {[t |-> [t EXCEPT !.mFertilizerLayer[c] = f1],
                     growth |-> [x \in Cells |-> IF x = c THEN <<0, 0>> ELSE s.growth[x]]]}
              ELSE {LET v == cv \div 8
                        g2 == Clamp(0, t.mGrassThresh[p][2], t.mGrassLayer[p] + v)
                    IN Finish([t EXCEPT !.mGrassLayer[p] = g2], v, g2 - t.mGrassLayer[p])
                    : p \in GetLowestGrass(t, c)}
       ELSE {Finish([t EXCEPT !.mGrassLayer[c] = @ + cv], cv, cv)}

RECURSIVE UpdateFrom(_, _, _)
UpdateFrom(S, i, dt) ==
  IF i > Len(CellOrder) THEN S
  ELSE UpdateFrom(UNION {UpdateCell(s, CellOrder[i], dt) : s \in S}, i + 1, dt)

\* Terrain::Update(_dt): every state (with its per-cell growth record) the
\* call can leave from t.
TerrainUpdate(t, dt) ==
  UpdateFrom({[t |-> t, growth |-> [c \in Cells |-> <<0, 0>>]]}, 1, dt)

\* A ConsumeGrass that reports the amount it was asked for.
TerrainConsumeGrassRequested(t, c, val) ==
  LET lo == t.mGrassThresh[c][1]
      hi == t.mGrassThresh[c][2]
      v == Min(FMul(val, hi - lo), t.mGrassLayer[c])
      result == Clamp(lo, hi, t.mGrassLayer[c] - v)
  IN <<[t EXCEPT !.mGrassLayer[c] = result], FMul(val, hi - lo)>>

\* Terrain::ConsumeGrass(_x, _y, _val) on an in-grid cell: <<terrain, returned>>.
TerrainConsumeGrass(t, c, val) ==
  LET lo == t.mGrassThresh[c][1]
      hi == t.mGrassThresh[c][2]
      v == Min(FMul(val, hi - lo), t.mGrassLayer[c])
      result == Clamp(lo, hi, t.mGrassLayer[c] - v)
  IN <<[t EXCEPT !.mGrassLayer[c] = result], t.mGrassLayer[c] - result>>

\* Absolute amounts of grass asked of ConsumeGrassThreadSafe.
ConsumeAmounts == {0, One, 4 * One}

\* ParallelEcoSystem::ConsumeGrassThreadSafe(x, y, amount) on an in-grid cell,
\* the grid mutex taken and released within the call: <<terrain, returned>>.
TerrainConsumeGrassThreadSafe(t, c, amount) ==
  IF amount <= 0 THEN <<t, 0>>
  ELSE LET available == t.mGrassLayer[c]
           consumed == Min(amount, available)
       IN <<[t EXCEPT !.mGrassLayer[c] = available - consumed], consumed>>

FastLerp(a, b, f) == a + FMul(b - a, f)

\* The cell rule of ParallelEcoSystem::ParallelUpdateTerrain: <<grass, fertilizer>>.
ParallelCell(t, c, dt) ==
  LET f == FDiv(t.mFertilizerLayer[c], t.mFertilizerThresh[c][2])
      growth_rate == FastLerp(t.mfGRateLo, t.mfGRateHi, f)
      decay_rate == FastLerp(t.mfFRateLo, t.mfFRateHi, f)
  IN <<Min(t.mGrassThresh[c][2], t.mGrassLayer[c] + FMul(growth_rate, dt)),
       Max(0, t.mFertilizerLayer[c] - FMul(decay_rate, dt))>>

\* Phase 2 of a parallel tick over the whole grid: every partition's task
\* applies the cell rule to its own slice, and a cell's rule reads that cell only.
ParallelTerrain(t, dt) ==
  [t EXCEPT !.mGrassLayer = [c \in Cells |-> ParallelCell(t, c, dt)[1]],
            !.mFertilizerLayer = [c \in Cells |-> ParallelCell(t, c, dt)[2]]]

(***************************************************************************)
(* SpecTerrain: a Terrain after Init, driven by Update (the single-        *)
(* threaded engine), by the parallel engine's terrain phase and by         *)
(* ConsumeGrass.                                                           *)
(***************************************************************************)
Update(dt) ==
  /\ terr.nOps < MaxTerrainOps
  /\ \E s \in TerrainUpdate(terr, dt) :
       /\ terr' = [s.t EXCEPT !.nOps = @ + 1]
       /\ terrLog' = [NoLog EXCEPT !.op = "Update", !.dt = dt, !.growth = s.growth,
                                   !.serial = terrLog.serial]
  /\ UNCHANGED <<rwl, eco>>

ParallelUpdateTerrain(dt) ==
  /\ terr.nOps < MaxTerrainOps
  /\ terr' = [ParallelTerrain(terr, dt) EXCEPT !.nOps = @ + 1]
  /\ terrLog' = [NoLog EXCEPT !.op = "ParallelUpdateTerrain", !.dt = dt, !.serial = FALSE]
  /\ UNCHANGED <<rwl, eco>>

ConsumeGrass(c, val) ==
  /\ terr.nOps < MaxTerrainOps
  /\ LET r == TerrainConsumeGrass(terr, c, val)
     IN /\ terr' = [r[1] EXCEPT !.nOps = @ + 1]
        /\ terrLog' = [NoLog EXCEPT !.op = "ConsumeGrass", !.ret = r[2], !.cell = c,
                                    !.serial = terrLog.serial]
  /\ UNCHANGED <<rwl, eco>>

ConsumeGrassThreadSafe(c, amount) ==
  /\ terr.nOps < MaxTerrainOps
  /\ LET r == TerrainConsumeGrassThreadSafe(terr, c, amount)
     IN /\ terr' = [r[1] EXCEPT !.nOps = @ + 1]
        /\ terrLog' = [NoLog EXCEPT !.op = "ConsumeGrassThreadSafe", !.ret = r[2],
                                    !.cell = c, !.serial = FALSE]
  /\ UNCHANGED <<rwl, eco>>

TerrainInit ==
  /\ terr \in TerrainInitStates
  /\ terrLog = NoLog
  /\ rwl = <<>>
  /\ eco = <<>>

TerrainNext ==
  \/ \E dt \in Dts : Update(dt)
  \/ \E dt \in Dts : ParallelUpdateTerrain(dt)
  \/ \E c \in Cells, val \in EatFractions : ConsumeGrass(c, val)
  \/ \E c \in Cells, amount \in ConsumeAmounts : ConsumeGrassThreadSafe(c, amount)

SpecTerrain == TerrainInit /\ [][TerrainNext]_vars

\* C9: after any sequence of Update and ConsumeGrass, every cell's grass and
\* fertilizer lie within their thresholds.
C9_WithinThresholds ==
  terrLog.serial =>
  \A c \in Cells :
    /\ terr.mGrassThresh[c][1] <= terr.mGrassLayer[c]
    /\ terr.mGrassLayer[c] <= terr.mGrassThresh[c][2]
    /\ terr.mFertilizerThresh[c][1] <= terr.mFertilizerLayer[c]
    /\ terr.mFertilizerLayer[c] <= terr.mFertilizerThresh[c][2]

\* C10: in every cell step of Update the fertilizer debited for growth equals
\* the grass added.
C10_DebitEqualsGrowth ==
  terrLog.op = "Update" =>
    \A c \in Cells : terrLog.growth[c][1] = terrLog.growth[c][2]

\* C8: a parallel tick leaves every cell's grass and fertilizer as a tick of
\* EcoSystem::Update with the same dt leaves them (no agent in the registry, so
\* the terrain step is the whole tick on both sides).
C8_ParallelTickMatchesUpdate ==
  [][terrLog'.op = "ParallelUpdateTerrain" =>
       \E s \in TerrainUpdate(terr, terrLog'.dt) :
         /\ s.t.mGrassLayer = terr'.mGrassLayer
         /\ s.t.mFertilizerLayer = terr'.mFertilizerLayer]_vars


\* C11: ConsumeGrass and ConsumeGrassThreadSafe on an in-grid cell return
\* exactly the decrease of that cell's grass; the returned amount is never
\* negative and never more than the grass that was present, and no other
\* cell's grass and no fertilizer changes.
C11_ConsumeReturnsDeficit ==
  [][terrLog'.op \in {"ConsumeGrass", "ConsumeGrassThreadSafe"} =>
       LET c == terrLog'.cell
       IN /\ terrLog'.ret = terr.mGrassLayer[c] - terr'.mGrassLayer[c]
          /\ terrLog'.ret >= 0
          /\ terrLog'.ret <= terr.mGrassLayer[c]
          /\ \A d \in Cells \ {c} : terr'.mGrassLayer[d] = terr.mGrassLayer[d]
          /\ terr'.mFertilizerLayer = terr.mFertilizerLayer]_vars

\* A ConsumeGrass call took part of a cell's grass and left the rest.
C11_Witness ==
  /\ terrLog.op = "ConsumeGrass"
  /\ terrLog.ret > 0
  /\ terr.mGrassLayer[terrLog.cell] > 0

(***************************************************************************)
(* ParallelEcoSystem.  Thread 0 is the thread that calls ParallelUpdate,   *)
(* threads 1..nw are the ThreadPool's workers.  A std::mutex is the set of *)
(* threads owning it (empty or a singleton).                               *)
(***************************************************************************)
PartitionSize == 2
MaxWorkers == 2
MaxCreatures == 2

partitions_x_ == (GridW + PartitionSize - 1) \div PartitionSize
partitions_y_ == (GridH + PartitionSize - 1) \div PartitionSize
partition_count_ == partitions_x_ * partitions_y_
Partitions == 0..(partition_count_ - 1)

GetPartitionId(c) ==
  (c[2] \div PartitionSize) * partitions_x_ + (c[1] \div PartitionSize)

\* The cells inside GetPartitionBounds(p).
PartitionCells(p) ==
  LET min_x == (p % partitions_x_) * PartitionSize
      min_y == (p \div partitions_x_) * PartitionSize
      max_x == Min(min_x + PartitionSize, GridW)
      max_y == Min(min_y + PartitionSize, GridH)
  IN {c \in Cells : min_x <= c[1] /\ c[1] < max_x /\ min_y <= c[2] /\ c[2] < max_y}

Abs(n) == IF n < 0 THEN -n ELSE n

AreNeighbors(p1, p2) ==
  /\ Abs((p1 % partitions_x_) - (p2 % partitions_x_)) <= 1
  /\ Abs((p1 \div partitions_x_) - (p2 \div partitions_x_)) <= 1

\* A Creature: name, grid position, energy (first, second), FLAG_DEAD, pending
\* path, and the patrol target its next RandomInt draws give (ExploreParallel).
\* maxAlive observes the maximum energy the creature was constructed with.
NewCreature(name, pos, energy, patrol) ==
  [mName |-> name, pos |-> pos, mfEnergy |-> energy, dead |-> FALSE,
   mCurPath |-> <<>>, patrol |-> patrol, maxAlive |-> energy[2]]

\* Rabbits, and Foxes that are hungry (ratio 0.25), moderately fed (0.5) and
\* well fed (1.0).
CreatureChoices ==
  {NewCreature("Rabbit", c, <<2 * One, 2 * One>>, c) : c \in Cells}
  \cup {NewCreature("Fox", c, <<e, 4 * One>>, c) : c \in Cells, e \in {One, 4 * One}}
  \cup {NewCreature("Fox", c, <<2 * One, 4 * One>>, g) : c \in Cells, g \in Cells}

\* Registries of at most MaxCreatures creatures, no two on one cell.
Registries ==
  {r \in UNION {[1..n -> CreatureChoices] : n \in 0..MaxCreatures} :
     \A i, j \in DOMAIN r : i # j => r[i].pos # r[j].pos}

\* The terrains a tick starts from: Terrain::Init states with no initial grass
\* patch, cells alike.
TickTerrains ==
  {t \in TerrainInitStates :
     /\ \A c, d \in Cells : /\ t.mGrassLayer[c] = t.mGrassLayer[d]
                            /\ t.mFertilizerLayer[c] = t.mFertilizerLayer[d]
                            /\ t.mGrassLayerRate[c] = t.mfGRateLo
                            /\ t.mGrassLayer[c] = 0}

NoTask == [kind |-> "none", arg |-> 0, id |-> 0]

IdleWorker == [pc |-> "idle", task |-> NoTask, j |-> 0, k |-> 0]

NoWrite == [by |-> 0, cells |-> {}, guarded |-> TRUE]

\* The object after construction and InitializeParallel(nw), holding terrain t
\* and registry r.
NewEco(nw, t, r) ==
  [nw |-> nw,
   main |-> [pc |-> "idle", phase |-> "none", i |-> 0],
   dt |-> 0,
   tasks_ |-> <<>>,
   ready |-> {},
   wk |-> [w \in 1..nw |-> IdleWorker],
   partition_mutexes_ |-> [p \in Partitions |-> {}],
   partition_creatures_ |-> [p \in Partitions |-> <<>>],
   terrain_lock_ |-> NewRWLock(0..nw),
   creatures_lock_ |-> NewRWLock(0..nw),
   mTerrain |-> t,
   mAllCreatures |-> r,
   \* mTerrain's space layer as Terrain::Init fills it: ParallelUpdate never
   \* calls UpdateMap, the one place that writes an index to it.
   mSpaceLayer |-> [c \in Cells |-> -1],
   mfDeathThresh |-> One \div 4,
   dead_indices |-> <<>>,
   \* observers
   started |-> [kd \in {"terrain", "creatures", "scan"} |-> 0],
   finished |-> [kd \in {"terrain", "creatures", "scan"} |-> 0],
   interactionsDone |-> FALSE,
   lockOrder |-> <<>>,
   lastWrite |-> NoWrite,
   deposits |-> <<>>]

Threads(s) == 0..s.nw

HeldPartitions(s, t) == {p \in Partitions : t \in s.partition_mutexes_[p]}

\* std::mutex::lock on partition_mutexes_[p] by thread t, the mutex being free.
\* lockOrder records, each time a thread takes a second partition mutex, the one
\* it held and the one it took.
LockPartition(s, t, p) ==
  [s EXCEPT !.partition_mutexes_ = [q \in Partitions |-> IF q = p THEN {t} ELSE s.partition_mutexes_[q]],
            !.lockOrder = IF HeldPartitions(s, t) = {} THEN @
                          ELSE <<CHOOSE q \in HeldPartitions(s, t) : TRUE, p>>]

UnlockPartition(s, t, p) ==
  [s EXCEPT !.partition_mutexes_ = [q \in Partitions |-> IF q = p THEN {} ELSE s.partition_mutexes_[q]]]


\* --- the calling thread ---------------------------------------------------

\* A rebuild that appends to the lists without clearing them first.
UpdateSpatialPartitionsNoClear(s) ==
  [s EXCEPT !.partition_creatures_ =
     [p \in Partitions |->
        s.partition_creatures_[p] \o
        SelectSeq([i \in 1..Len(s.mAllCreatures) |-> i],
                  LAMBDA i : /\ ~s.mAllCreatures[i].dead
                             /\ GetPartitionId(s.mAllCreatures[i].pos) = p)]]

\* A rebuild that leaves out the test of FLAG_DEAD.
UpdateSpatialPartitionsWithDead(s) ==
  [s EXCEPT !.partition_creatures_ =
     [p \in Partitions |->
        SelectSeq([i \in 1..Len(s.mAllCreatures) |-> i],
                  LAMBDA i : GetPartitionId(s.mAllCreatures[i].pos) = p)]]

\* UpdateSpatialPartitions: every list cleared, then every live creature of the
\* registry, in registry order, appended to the list of its partition.  The
\* lists hold pointers; a creature is named by its place in the registry,
\* which does not change before the removal phase.
UpdateSpatialPartitions(s) ==
  [s EXCEPT !.partition_creatures_ =
     [p \in Partitions |->
        SelectSeq([i \in 1..Len(s.mAllCreatures) |-> i],
                  LAMBDA i : /\ ~s.mAllCreatures[i].dead
                             /\ GetPartitionId(s.mAllCreatures[i].pos) = p)]]

\* ParallelCleanupDead's chunk size and the number of scan tasks it submits.
ChunkSize(s) == Max(1, Len(s.mAllCreatures) \div s.nw)
ChunkCount(s) == (Len(s.mAllCreatures) + ChunkSize(s) - 1) \div ChunkSize(s)

\* A phase that submits one task only.
SingleTask(s) == Min(1, partition_count_)

\* The number of tasks the current phase submits.
TaskCount(s) == IF s.main.phase = "scan" THEN ChunkCount(s) ELSE partition_count_

\* A barrier that does not wait.
FutureReadyAtOnce(s, i) == TRUE

\* future.wait() returns once the task's packaged_task has run (or thrown).
FutureReady(s, i) == i \in s.ready

EnterPhase(s, phase) ==
  [s EXCEPT !.main = [pc |-> "submit", phase |-> phase, i |-> 0],
            !.ready = {}]

\* What follows the last future.wait() of a phase.
AfterBarrier(s) ==
  CASE s.main.phase = "terrain" -> EnterPhase(s, "creatures")
    [] s.main.phase = "creatures" -> [s EXCEPT !.main.pc = "interactions"]
    [] OTHER -> [s EXCEPT !.main.pc = "remove"]

RECURSIVE SortDescending(_)
SortDescending(S) ==
  IF S = {} THEN <<>>
  ELSE LET m == CHOOSE x \in S : \A y \in S : y <= x
       IN <<m>> \o SortDescending(S \ {m})

\* A removal loop that pops the last creature without the swap.
RECURSIVE RemoveDeadPopOnly(_, _)
RemoveDeadPopOnly(s, idxs) ==
  IF idxs = <<>> THEN s
  ELSE RemoveDeadPopOnly([s EXCEPT !.mAllCreatures = SubSeq(@, 1, Len(@) - 1)],
                         Tail(idxs))

\* The removal loop of ParallelCleanupDead over the indices idxs: the dead
\* creature leaves its cell when the space layer names it, its max energy
\* times mfDeathThresh goes to the fertilizer of its cell, the creature is
\* swapped with the last one and popped.
RECURSIVE RemoveDead(_, _)
RemoveDead(s, idxs) ==
  IF idxs = <<>> THEN s
  ELSE LET reg == s.mAllCreatures
           x == Head(idxs)
           pos == reg[x].pos
           add == FMul(reg[x].mfEnergy[2], s.mfDeathThresh)
           fert == [c \in Cells |-> IF c = pos THEN s.mTerrain.mFertilizerLayer[c] + add
                                    ELSE s.mTerrain.mFertilizerLayer[c]]
           swapped == IF x # Len(reg) THEN [reg EXCEPT ![x] = reg[Len(reg)]] ELSE reg
       IN RemoveDead([s EXCEPT !.mSpaceLayer = [c \in Cells |-> IF c = pos /\ @[c] = x - 1
                                                                    THEN -1 ELSE @[c]],
                               !.mTerrain.mFertilizerLayer = fert,
                               !.deposits = Append(@, [added |-> add,
                                                       maxAlive |-> reg[x].maxAlive]),
                               !.lastWrite = [by |-> 0, cells |-> {pos},
                                              guarded |-> s.terrain_lock_.st[0] = "write"],
                               !.mAllCreatures = SubSeq(swapped, 1, Len(reg) - 1)],
                     Tail(idxs))

\* A predation that erases the prey from the registry on the spot.
AttemptPredationErasingPrey(s, a, b) ==
  LET reg == s.mAllCreatures
  IN IF reg[a].dead \/ reg[b].dead THEN s
     ELSE [s EXCEPT !.mAllCreatures =
             [i \in 1..(Len(reg) - 1) |-> IF i < b THEN reg[i] ELSE reg[i + 1]]]

\* AttemptPredationThreadSafe(predator, prey), a and b their places in the registry.
AttemptPredationThreadSafe(s, a, b) ==
  LET pred == s.mAllCreatures[a]
      prey == s.mAllCreatures[b]
      pp == GetPartitionId(pred.pos)
      qp == GetPartitionId(prey.pos)
      locked == IF pp = qp THEN LockPartition(s, 0, pp)
                ELSE LockPartition(LockPartition(s, 0, Min(pp, qp)), 0, Max(pp, qp))
      dist_sq == (pred.pos[1] - prey.pos[1]) * (pred.pos[1] - prey.pos[1])
                 + (pred.pos[2] - prey.pos[2]) * (pred.pos[2] - prey.pos[2])
      gained == prey.mfEnergy[1]
      eaten == [locked EXCEPT
                  !.mAllCreatures[b].dead = TRUE,
                  !.mAllCreatures[b].mfEnergy = <<0, 0>>,
                  !.mAllCreatures[a].mfEnergy =
                     <<Clamp(0, pred.mfEnergy[2], pred.mfEnergy[1] + gained), pred.mfEnergy[2]>>]
      after == IF dist_sq > 2 THEN locked ELSE eaten
  IN IF pred.dead \/ prey.dead THEN s
     ELSE UnlockPartition(UnlockPartition(after, 0, pp), 0, qp)

\* --- the workers ------------------------------------------------------------

FinishTask(s, w) ==
  [s EXCEPT !.finished[s.wk[w].task.kind] = @ + 1,
            !.ready = @ \cup {s.wk[w].task.id},
            !.wk[w] = IdleWorker]

\* ParallelPathfinder::FindPathThreadSafe: steps of (dx, dy) from start until
\* the goal is reached or the grid is left.
RECURSIVE Walk(_, _, _, _)
Walk(cur, goal, d, path) ==
  IF cur = goal THEN path
  ELSE LET nxt == <<cur[1] + d[1], cur[2] + d[2]>>
       IN IF ~InGrid(nxt) THEN path ELSE Walk(nxt, goal, d, Append(path, nxt))

Sign(n) == IF n > 0 THEN 1 ELSE IF n < 0 THEN -1 ELSE 0

FindPathThreadSafe(start, goal) ==
  Walk(start, goal, <<Sign(goal[1] - start[1]), Sign(goal[2] - start[2])>>, <<>>)

\* What the creature's ParallelUpdateBehavior does first: a Rabbit (whose
\* InteractionCache entry is never fresh in a tick that begins with none), a
\* hungry Fox (energy ratio < 0.3) and a well-fed Fox (> 0.8) call
\* SenseNearbyCreatures; any other Fox explores.
Senses(c) ==
  \/ c.mName = "Rabbit"
  \/ c.mName = "Fox" /\ (10 * c.mfEnergy[1] < 3 * c.mfEnergy[2]
                         \/ 10 * c.mfEnergy[1] > 8 * c.mfEnergy[2])

\* ThreadSafeFox::ExploreParallel.
ExploreParallel(c) ==
  LET patrol_path == FindPathThreadSafe(c.pos, c.patrol)
  IN IF patrol_path # <<>> THEN [c EXCEPT !.mCurPath = patrol_path] ELSE c

\* The first partition at or after k that SenseNearbyCreatures does not skip.
NextSensed(own, k) ==
  CHOOSE q \in Partitions :
    /\ q >= k /\ (AreNeighbors(own, q) \/ q = own)
    /\ \A r \in Partitions : (r >= k /\ (AreNeighbors(own, r) \/ r = own)) => q <= r


(***************************************************************************)
(* SpecTick: one ParallelUpdate on an initialised ParallelEcoSystem, with  *)
(* AttemptPredationThreadSafe callable before it.                          *)
(***************************************************************************)
Step(e, s) ==
  /\ eco' = [eco EXCEPT ![e] = s]
  /\ UNCHANGED <<rwl, terr, terrLog>>

\* A caller outside the tick asks for a predation (a Fox on a Rabbit).
AttemptPredation(e, a, b) ==
  LET s == eco[e]
  IN /\ e \in DOMAIN eco
     /\ s.main.pc = "idle"
     /\ a \in DOMAIN s.mAllCreatures /\ b \in DOMAIN s.mAllCreatures
     /\ s.mAllCreatures[a].mName = "Fox" /\ s.mAllCreatures[b].mName = "Rabbit"
     /\ ~s.mAllCreatures[a].dead /\ ~s.mAllCreatures[b].dead
     /\ Step(e, AttemptPredationThreadSafe(s, a, b))

\* ParallelUpdate(dt) up to the first Submit: phase 1.
StartTick(e, dt) ==
  LET s == eco[e]
  IN /\ e \in DOMAIN eco
     /\ s.main.pc = "idle"
     /\ Step(e, EnterPhase([UpdateSpatialPartitions(s) EXCEPT !.dt = dt], "terrain"))

\* thread_pool_->Submit of the phase's next task.
MainSubmit(e) ==
  LET s == eco[e]
      i == s.main.i
      pushed == [s EXCEPT !.tasks_ = Append(@, [kind |-> s.main.phase, arg |-> i, id |-> i]),
                          !.main.i = i + 1]
  IN /\ e \in DOMAIN eco
     /\ s.main.pc = "submit"
     /\ Step(e, IF i + 1 = TaskCount(s)
                  THEN [pushed EXCEPT !.main.pc = "wait", !.main.i = 0]
                  ELSE pushed)

\* future.wait() on the phase's next future.
MainWait(e) ==
  LET s == eco[e]
      i == s.main.i
  IN /\ e \in DOMAIN eco
     /\ s.main.pc = "wait"
     /\ FutureReady(s, i)
     /\ Step(e, IF i + 1 = TaskCount(s) THEN AfterBarrier(s)
                ELSE [s EXCEPT !.main.i = i + 1])

\* Phase 4: interaction_queue_ is empty (nothing in the program pushes to it).
ProcessInteractions(e) ==
  LET s == eco[e]
  IN /\ e \in DOMAIN eco
     /\ s.main.pc = "interactions"
     /\ Step(e, [s EXCEPT !.main.pc = "cleanup", !.interactionsDone = TRUE])

\* ParallelCleanupDead up to the first Submit: the write guard on
\* creatures_lock_ (held until the function returns).
CleanupBegin(e) ==
  LET s == eco[e]
      locked == [s EXCEPT !.creatures_lock_ = RWWriteLock(@, 0), !.dead_indices = <<>>]
  IN /\ e \in DOMAIN eco
     /\ s.main.pc = "cleanup"
     /\ WritePred(s.creatures_lock_)
     /\ Step(e, IF Len(s.mAllCreatures) = 0
                  THEN [locked EXCEPT !.main.pc = "remove"]
                  ELSE EnterPhase(locked, "scan"))

\* ParallelCleanupDead after the scan: sort, remove, release the guard.
CleanupRemove(e) ==
  LET s == eco[e]
      sorted == SortDescending({s.dead_indices[n] : n \in DOMAIN s.dead_indices})
      removed == RemoveDead(s, sorted)
  IN /\ e \in DOMAIN eco
     /\ s.main.pc = "remove"
     /\ Step(e, [removed EXCEPT !.creatures_lock_ = RWWriteUnlock(@, 0),
                                !.main.pc = "done"])

\* A worker takes the task at the front of tasks_.
WorkerTake(e, w) ==
  LET s == eco[e]
  IN /\ e \in DOMAIN eco /\ w \in 1..s.nw
     /\ s.wk[w].pc = "idle"
     /\ s.tasks_ # <<>>
     /\ Step(e, [s EXCEPT !.tasks_ = Tail(@),
                          !.wk[w] = [pc |-> "run", task |-> Head(s.tasks_), j |-> 1, k |-> 0],
                          !.started[Head(s.tasks_).kind] = @ + 1])

\* Terrain task: WriteGuard terrain_guard(terrain_lock_).
TerrainTaskLock(e, w) ==
  LET s == eco[e]
      l == RWWriteLock(s.terrain_lock_, w)
  IN /\ e \in DOMAIN eco /\ w \in 1..s.nw
     /\ s.wk[w].pc = "run" /\ s.wk[w].task.kind = "terrain"
     /\ Step(e, [s EXCEPT !.terrain_lock_ = l,
                          !.wk[w].pc = IF l.st[w] = "write" THEN "write" ELSE "wait"])

\* Terrain task: woken inside WriteLock.
TerrainTaskWake(e, w) ==
  LET s == eco[e]
      l == RWWriteRecheck(s.terrain_lock_, w)
  IN /\ e \in DOMAIN eco /\ w \in 1..s.nw
     /\ s.wk[w].pc = "wait" /\ w \in s.terrain_lock_.sig
     /\ Step(e, [s EXCEPT !.terrain_lock_ = l,
                          !.wk[w].pc = IF l.st[w] = "write" THEN "write" ELSE "wait"])

\* Terrain task: the loops over its slice, then the guard's release.
TerrainTaskWrite(e, w) ==
  LET s == eco[e]
      slice == PartitionCells(s.wk[w].task.arg)
      t == s.mTerrain
      written == [s EXCEPT
         !.mTerrain.mGrassLayer =
            [c \in Cells |-> IF c \in slice THEN ParallelCell(t, c, s.dt)[1] ELSE t.mGrassLayer[c]],
         !.mTerrain.mFertilizerLayer =
            [c \in Cells |-> IF c \in slice THEN ParallelCell(t, c, s.dt)[2] ELSE t.mFertilizerLayer[c]],
         !.lastWrite = [by |-> w, cells |-> slice,
                        guarded |-> s.terrain_lock_.st[w] = "write"],
         !.terrain_lock_ = RWWriteUnlock(@, w)]
  IN /\ e \in DOMAIN eco /\ w \in 1..s.nw
     /\ s.wk[w].pc = "write"
     /\ Step(e, FinishTask(written, w))

\* Creature task: lock_guard on the task's own partition mutex.
CreatureTaskLock(e, w) ==
  LET s == eco[e]
      p == s.wk[w].task.arg
  IN /\ e \in DOMAIN eco /\ w \in 1..s.nw
     /\ s.wk[w].pc = "run" /\ s.wk[w].task.kind = "creatures"
     /\ s.partition_mutexes_[p] = {}
     /\ Step(e, [LockPartition(s, w, p) EXCEPT !.wk[w].pc = "creatures"])

\* Creature task: the loop's next creature, or the end of the task.
CreatureStep(e, w) ==
  LET s == eco[e]
      p == s.wk[w].task.arg
      list == s.partition_creatures_[p]
      j == s.wk[w].j
      x == list[j]
      c == s.mAllCreatures[x]
  IN /\ e \in DOMAIN eco /\ w \in 1..s.nw
     /\ s.wk[w].pc = "creatures"
     /\ IF j > Len(list)
          THEN Step(e, FinishTask(UnlockPartition(s, w, p), w))
          ELSE IF c.dead
            THEN Step(e, [s EXCEPT !.wk[w].j = j + 1])
            ELSE IF Senses(c)
              THEN /\ ReadPred(s.creatures_lock_)
                   /\ Step(e, [s EXCEPT !.creatures_lock_ = RWReadLock(@, w),
                                        !.wk[w].pc = "sense", !.wk[w].k = 0])
              ELSE Step(e, [s EXCEPT !.mAllCreatures[x] = ExploreParallel(c),
                                     !.wk[w].j = j + 1])

\* SenseNearbyCreatures: lock_guard on a neighbouring partition's mutex.
SenseLock(e, w) ==
  LET s == eco[e]
      own == s.wk[w].task.arg
      q == NextSensed(own, s.wk[w].k)
  IN /\ e \in DOMAIN eco /\ w \in 1..s.nw
     /\ s.wk[w].pc = "sense"
     /\ q # own
     /\ s.partition_mutexes_[q] = {}
     /\ Step(e, [LockPartition(s, w, q) EXCEPT !.wk[w].pc = "scan", !.wk[w].k = q])

\* SenseNearbyCreatures: the partition's list read, the lock_guard released.
SenseUnlock(e, w) ==
  LET s == eco[e]
  IN /\ e \in DOMAIN eco /\ w \in 1..s.nw
     /\ s.wk[w].pc = "scan"
     /\ Step(e, [UnlockPartition(s, w, s.wk[w].k) EXCEPT
                   !.wk[w].pc = "sense", !.wk[w].k = s.wk[w].k + 1])

\* SenseNearbyCreatures reaches the caller's own partition, whose mutex the
\* task already owns: std::mutex::lock by the owner is undefined.  The source
\* builds only where size_t is unsigned long (ParallelCleanupDead's
\* std::max(1ul, ...)), that is on pthreads, where the call either never
\* returns or fails with EDEADLK, which lock() throws as std::system_error;
\* the packaged_task stores the exception, the guards unwind and the future
\* becomes ready.
SenseRelockOwn(e, w) ==
  LET s == eco[e]
      own == s.wk[w].task.arg
      unwound == [UnlockPartition(s, w, own) EXCEPT !.creatures_lock_ = RWReadUnlock(@, w)]
  IN /\ e \in DOMAIN eco /\ w \in 1..s.nw
     /\ s.wk[w].pc = "sense"
     /\ NextSensed(own, s.wk[w].k) = own
     /\ \E outcome \in {"blocks", "throws"} :
          Step(e, IF outcome = "blocks" THEN [s EXCEPT !.wk[w].pc = "deadlocked"]
                  ELSE FinishTask(unwound, w))

\* Scan task: the dead creatures of its chunk, appended to dead_indices.
ScanTask(e, w) ==
  LET s == eco[e]
      first == s.wk[w].task.arg * ChunkSize(s) + 1
      last == Min(first + ChunkSize(s) - 1, Len(s.mAllCreatures))
      local_dead == SelectSeq([n \in 1..(last - first + 1) |-> first + n - 1],
                              LAMBDA x : s.mAllCreatures[x].dead)
  IN /\ e \in DOMAIN eco /\ w \in 1..s.nw
     /\ s.wk[w].pc = "run" /\ s.wk[w].task.kind = "scan"
     /\ Step(e, FinishTask([s EXCEPT !.dead_indices = @ \o local_dead], w))

TickInit ==
  /\ \E nw \in 1..MaxWorkers, t \in TickTerrains, r \in Registries :
       eco = <<NewEco(nw, t, r)>>
  /\ rwl = <<>>
  /\ terr = <<>>
  /\ terrLog = <<>>

\* The instance under test and, where two are compared, its twin.
EcoIds == {1, 2}

Workers == 1..MaxWorkers

Ecos == DOMAIN eco

TickNext ==
  \/ \E e \in EcoIds, a, b \in 1..MaxCreatures : AttemptPredation(e, a, b)
  \/ \E e \in EcoIds, dt \in Dts : StartTick(e, dt)
  \/ \E e \in EcoIds : MainSubmit(e)
  \/ \E e \in EcoIds : MainWait(e)
  \/ \E e \in EcoIds : ProcessInteractions(e)
  \/ \E e \in EcoIds : CleanupBegin(e)
  \/ \E e \in EcoIds : CleanupRemove(e)
  \/ \E e \in EcoIds, w \in Workers : WorkerTake(e, w)
  \/ \E e \in EcoIds, w \in Workers : TerrainTaskLock(e, w)
  \/ \E e \in EcoIds, w \in Workers : TerrainTaskWake(e, w)
  \/ \E e \in EcoIds, w \in Workers : TerrainTaskWrite(e, w)
  \/ \E e \in EcoIds, w \in Workers : CreatureTaskLock(e, w)
  \/ \E e \in EcoIds, w \in Workers : CreatureStep(e, w)
  \/ \E e \in EcoIds, w \in Workers : SenseLock(e, w)
  \/ \E e \in EcoIds, w \in Workers : SenseUnlock(e, w)
  \/ \E e \in EcoIds, w \in Workers : SenseRelockOwn(e, w)
  \/ \E e \in EcoIds, w \in Workers : ScanTask(e, w)

SpecTick == TickInit /\ [][TickNext]_vars

\* C37: when a tick has ended, every index in the space layer is a place of
\* the registry whose creature stands on that cell, and the cell of every
\* creature of the registry holds an index.
C37_OccupancyAgreesWithRegistry ==
  \A e \in Ecos :
    eco[e].main.pc = "done" =>
      /\ \A c \in Cells :
           eco[e].mSpaceLayer[c] # -1 =>
             /\ eco[e].mSpaceLayer[c] + 1 \in DOMAIN eco[e].mAllCreatures
             /\ eco[e].mAllCreatures[eco[e].mSpaceLayer[c] + 1].pos = c
      /\ \A j \in DOMAIN eco[e].mAllCreatures :
           eco[e].mSpaceLayer[eco[e].mAllCreatures[j].pos] # -1

\* C3: a ParallelUpdate that has started runs to completion: no worker is
\* blocked for ever on a partition mutex, and as long as the call has not
\* returned some thread can take a step.
C3_TickRunsToCompletion ==
  \A e \in Ecos :
    /\ \A w \in 1..eco[e].nw : eco[e].wk[w].pc # "deadlocked"
    /\ eco[e].main.pc \notin {"idle", "done"} => ENABLED TickNext

\* C4: each time a thread took a partition mutex while holding another, the one
\* it held had the lower partition id.
C4_LowerPartitionFirst ==
  \A e \in Ecos : eco[e].lockOrder # <<>> => eco[e].lockOrder[1] < eco[e].lockOrder[2]

\* C5: no creature task starts before every terrain task of the tick has
\* finished, interaction resolution starts only after every creature task has
\* finished, and removal starts only after interaction resolution has finished.
C5_PhasesInOrder ==
  \A e \in Ecos :
    LET s == eco[e]
    IN /\ s.started["creatures"] > 0 => s.finished["terrain"] = partition_count_
       /\ (s.main.pc \in {"interactions", "cleanup", "remove", "done"} \/ s.main.phase = "scan")
            => s.finished["creatures"] = partition_count_
       /\ (s.main.pc \in {"remove", "done"} \/ s.main.phase = "scan") => s.interactionsDone

\* C5 witness: a creature task is running on one worker while the caller waits
\* at the phase-3 barrier, every terrain task having finished.
C5_Witness ==
  \E e \in Ecos :
    /\ eco[e].main.pc = "wait" /\ eco[e].main.phase = "creatures"
    /\ \E w \in 1..eco[e].nw : eco[e].wk[w].pc = "creatures"
    /\ eco[e].finished["terrain"] = partition_count_

\* C6: every write to a grass or fertilizer cell during a tick is made by a
\* thread holding the terrain write lock (or the cell block's mutex).
C6_TerrainWritesGuarded ==
  \A e \in Ecos : eco[e].lastWrite.guarded

(***************************************************************************)
(* SpecPair: the same initialised ecosystem twice, eco[1] with one worker  *)
(* and eco[2] with several, each running one ParallelUpdate with the same  *)
(* dt.  The two share nothing, so eco[2] is started once eco[1] has        *)
(* returned.                                                               *)
(***************************************************************************)
\* The predations a caller can have asked for before the tick: none (<<0, 0>>)
\* or a Fox of r on a Rabbit of r.
Predations(r) ==
  {<<0, 0>>} \cup {ab \in (DOMAIN r) \X (DOMAIN r) :
                     r[ab[1]].mName = "Fox" /\ r[ab[2]].mName = "Rabbit"}

BeforeTick(s, ab) ==
  IF ab = <<0, 0>> THEN s ELSE AttemptPredationThreadSafe(s, ab[1], ab[2])

PairInit ==
  /\ \E nw \in 2..MaxWorkers, t \in TickTerrains, r \in Registries :
       \E ab \in Predations(r) :
         eco = <<BeforeTick(NewEco(1, t, r), ab), BeforeTick(NewEco(nw, t, r), ab)>>
  /\ rwl = <<>>
  /\ terr = <<>>
  /\ terrLog = <<>>

PairStartTick(e, dt) ==
  /\ StartTick(e, dt)
  /\ e = 2 => (eco[1].main.pc = "done" /\ dt = eco[1].dt)

PairNext ==
  \/ \E e \in EcoIds, dt \in Dts : PairStartTick(e, dt)
  \/ \E e \in EcoIds : MainSubmit(e)
  \/ \E e \in EcoIds : MainWait(e)
  \/ \E e \in EcoIds : ProcessInteractions(e)
  \/ \E e \in EcoIds : CleanupBegin(e)
  \/ \E e \in EcoIds : CleanupRemove(e)
  \/ \E e \in EcoIds, w \in Workers : WorkerTake(e, w)
  \/ \E e \in EcoIds, w \in Workers : TerrainTaskLock(e, w)
  \/ \E e \in EcoIds, w \in Workers : TerrainTaskWake(e, w)
  \/ \E e \in EcoIds, w \in Workers : TerrainTaskWrite(e, w)
  \/ \E e \in EcoIds, w \in Workers : CreatureTaskLock(e, w)
  \/ \E e \in EcoIds, w \in Workers : CreatureStep(e, w)
  \/ \E e \in EcoIds, w \in Workers : SenseLock(e, w)
  \/ \E e \in EcoIds, w \in Workers : SenseUnlock(e, w)
  \/ \E e \in EcoIds, w \in Workers : SenseRelockOwn(e, w)
  \/ \E e \in EcoIds, w \in Workers : ScanTask(e, w)

SpecPair == PairInit /\ [][PairNext]_vars

RECURSIVE SumOver(_, _)
SumOver(f, S) ==
  IF S = {} THEN 0
  ELSE LET c == CHOOSE x \in S : TRUE IN f[c] + SumOver(f, S \ {c})

\* Total grid energy: grass plus fertilizer over all cells.
GridEnergy(s) ==
  SumOver(s.mTerrain.mGrassLayer, Cells) + SumOver(s.mTerrain.mFertilizerLayer, Cells)

BothReturned == eco[1].main.pc = "done" /\ eco[2].main.pc = "done"

\* C7: when the tick has returned in both, the one-worker instance and the
\* several-worker instance hold the same number of agents and the same total
\* grid energy.
C7_SameCountAndEnergy ==
  BothReturned =>
    /\ Len(eco[1].mAllCreatures) = Len(eco[2].mAllCreatures)
    /\ GridEnergy(eco[1]) = GridEnergy(eco[2])

\* C7 witness: both ticks have returned, the several-worker one having scanned
\* the registry in more than one task, found a dead agent and removed it.
C7_Witness ==
  /\ BothReturned
  /\ eco[2].dead_indices # <<>>
  /\ eco[2].finished["scan"] > 1
  /\ Len(eco[2].mAllCreatures) > 0

\* The energy held by the creatures of the registry.
CreatureEnergy(s) ==
  SumOver([i \in DOMAIN s.mAllCreatures |-> s.mAllCreatures[i].mfEnergy[1]],
          DOMAIN s.mAllCreatures)

\* The fertilizer of the whole grid.
GridFertilizer(s) == SumOver(s.mTerrain.mFertilizerLayer, Cells)

\* C12: every agent that dies, by starvation or by being eaten, adds exactly
\* its maximum energy while alive times the death threshold to the fertilizer
\* of its death cell when it is removed.
C12_DeathDeposit ==
  \A e \in Ecos :
    \A n \in DOMAIN eco[e].deposits :
      eco[e].deposits[n].added = FMul(eco[e].deposits[n].maxAlive, eco[e].mfDeathThresh)

\* C13: when AttemptPredationThreadSafe gives a predator the energy of its
\* prey, the predator's energy increase plus the fertilizer added to the grid
\* equals the energy taken from the prey: the energy of the creatures and the
\* fertilizer together are unchanged.
C13_ExcessReturnedAsFertilizer ==
  [][\A e \in Ecos :
       (eco[e].main.pc = "idle" /\ eco'[e].main.pc = "idle") =>
         CreatureEnergy(eco'[e]) + GridFertilizer(eco'[e])
           = CreatureEnergy(eco[e]) + GridFertilizer(eco[e])]_vars

\* Who is in the registry: the creatures' names and maximum energies, in
\* registry order.
Membership(s) ==
  [i \in DOMAIN s.mAllCreatures |->
     <<s.mAllCreatures[i].mName, s.mAllCreatures[i].maxAlive>>]

\* C15: the registry keeps its members through phases 1 to 4 (and outside a
\* tick): no agent update, worker task or interaction adds or removes an
\* agent; membership changes only in the removal step of phase 5.
C15_RegistryChangesOnlyInRemoval ==
  [][\A e \in Ecos :
       Membership(eco'[e]) # Membership(eco[e]) =>
         /\ eco[e].main.pc = "remove"
         /\ \A w \in 1..eco[e].nw : eco[e].wk[w].pc = "idle"]_vars

\* Phases 1 to 4 have run, an agent update gave a creature a path, and the
\* registry holds every creature it held, the removal being still to come.
C15_Witness ==
  \E e \in Ecos :
    /\ eco[e].interactionsDone
    /\ eco[e].main.pc = "remove"
    /\ Len(eco[e].mAllCreatures) = MaxCreatures
    /\ \E i \in DOMAIN eco[e].mAllCreatures : eco[e].mAllCreatures[i].mCurPath # <<>>

\* Phase 1 has just rebuilt the partitions; nothing has moved since.
JustRebuilt(s) == s.main.pc = "submit" /\ s.main.phase = "terrain" /\ s.main.i = 0

\* How many times creature i occurs in the partition lists.
Occurrences(s, i) ==
  SumOver([p \in Partitions |->
             Cardinality({n \in DOMAIN s.partition_creatures_[p] :
                            s.partition_creatures_[p][n] = i})],
          Partitions)

\* C16: UpdateSpatialPartitions called again right after a rebuild, no
\* position or dead flag having changed, gives every partition the same
\* members: each live agent once, in the partition of its cell, no dead one.
C16_RebuildIdempotent ==
  \A e \in Ecos :
    JustRebuilt(eco[e]) =>
      LET again == UpdateSpatialPartitions(eco[e])
      IN /\ again.partition_creatures_ = eco[e].partition_creatures_
         /\ \A i \in DOMAIN again.mAllCreatures :
              Occurrences(again, i) = IF again.mAllCreatures[i].dead THEN 0 ELSE 1

\* A rebuild that filled two partitions.
C16_Witness ==
  \E e \in Ecos :
    /\ JustRebuilt(eco[e])
    /\ \E p, q \in Partitions :
         p # q /\ eco[e].partition_creatures_[p] # <<>> /\ eco[e].partition_creatures_[q] # <<>>

MaxDim == 3
MaxPartitionSize == 2
MaxSetupTicks == 1

\* Widths and heights the constructor and the setup window's sliders give.
Dims == 1..MaxDim

\* SpatialPartition::SpatialPartition(width, height, partition_size).
SpatialPartition(width, height, partition_size) ==
  [width_ |-> width, height_ |-> height, partition_size_ |-> partition_size,
   partitions_x_ |-> (width + partition_size - 1) \div partition_size,
   partitions_y_ |-> (height + partition_size - 1) \div partition_size,
   partition_count_ |-> ((width + partition_size - 1) \div partition_size)
                        * ((height + partition_size - 1) \div partition_size)]

\* SpatialPartition::GetPartitionId(x, y).
SP_GetPartitionId(sp, x, y) ==
  (y \div sp.partition_size_) * sp.partitions_x_ + (x \div sp.partition_size_)

\* SpatialPartition::GetPartitionBounds(id): <<min_x, min_y, max_x, max_y>>.
SP_GetPartitionBounds(sp, id) ==
  LET min_x == (id % sp.partitions_x_) * sp.partition_size_
      min_y == (id \div sp.partitions_x_) * sp.partition_size_
  IN <<min_x, min_y, Min(min_x + sp.partition_size_, sp.width_),
       Min(min_y + sp.partition_size_, sp.height_)>>

InBounds(b, x, y) == b[1] <= x /\ x < b[3] /\ b[2] <= y /\ y < b[4]

\* The cells of a w by h grid.
GridCells(w, h) == (0..(w - 1)) \X (0..(h - 1))

\* The object after EcoSystem(_w, _h, _s): not running, no partition yet.
NewSetupEco(w, h, ps) ==
  [mnWidth |-> w, mnHeight |-> h, PARTITION_SIZE |-> ps,
   initialized_ |-> FALSE, spatial_partition_ |-> SpatialPartition(0, 0, ps),
   mbRunEco |-> FALSE, terrainW |-> 0, terrainH |-> 0,
   ticks |-> 0, visits |-> <<>>, outside |-> {}, crashed |-> FALSE]

\* InitializeParallel: returns at once when already initialized.
InitializeParallelOf(s) ==
  IF s.initialized_ THEN s
  ELSE [s EXCEPT !.initialized_ = TRUE,
                 !.spatial_partition_ = SpatialPartition(s.mnWidth, s.mnHeight,
                                                         s.PARTITION_SIZE)]

\* The cells the phase-2 tasks touch, one task per partition id: how many
\* times each cell of the terrain is visited, and the cells visited that the
\* terrain's layers do not have.
TerrainVisits(s) ==
  LET sp == s.spatial_partition_
      ids == 0..(sp.partition_count_ - 1)
      hits(x, y) == Cardinality({id \in ids : InBounds(SP_GetPartitionBounds(sp, id), x, y)})
  IN [visits |-> [c \in GridCells(s.terrainW, s.terrainH) |-> hits(c[1], c[2])],
      outside |-> {c \in GridCells(sp.width_, sp.height_) \ GridCells(s.terrainW, s.terrainH) :
                     hits(c[1], c[2]) > 0}]

\* main's explicit InitializeParallel() call after Init().
InitializeParallel ==
  /\ ~eco[1].crashed /\ ~eco[1].initialized_
  /\ eco' = <<InitializeParallelOf(eco[1])>>
  /\ UNCHANGED <<rwl, terr, terrLog>>

\* ParallelUpdate while the simulation is not running: RenderSetup, whose
\* sliders set the width and the height and whose Begin button runs
\* Terrain::Init with them.
ParallelUpdateSetup(w, h, begin) ==
  LET s == InitializeParallelOf(eco[1])
      dragged == [s EXCEPT !.mnWidth = w, !.mnHeight = h]
  IN /\ ~eco[1].crashed /\ ~eco[1].mbRunEco
     /\ eco' = <<IF begin THEN [dragged EXCEPT !.mbRunEco = TRUE,
                                               !.terrainW = w, !.terrainH = h]
                 ELSE dragged>>
     /\ UNCHANGED <<rwl, terr, terrLog>>

\* ParallelUpdate while the simulation runs, as far as phase 2's cell visits
\* go.  A visit outside the layers is an out-of-range vector access: the
\* process crashes or carries on.
ParallelUpdateRun ==
  LET s == InitializeParallelOf(eco[1])
      v == TerrainVisits(s)
  IN /\ ~eco[1].crashed /\ eco[1].mbRunEco /\ eco[1].ticks < MaxSetupTicks
     /\ \E outcome \in {"crashes", "continues"} :
          /\ outcome = "crashes" => v.outside # {}
          /\ eco' = <<[s EXCEPT !.ticks = @ + 1, !.visits = v.visits,
                                !.outside = v.outside,
                                !.crashed = (outcome = "crashes")]>>
     /\ UNCHANGED <<rwl, terr, terrLog>>

SetupInit ==
  /\ \E w \in Dims, h \in Dims, ps \in 1..MaxPartitionSize :
       eco = <<NewSetupEco(w, h, ps)>>
  /\ rwl = <<>>
  /\ terr = <<>>
  /\ terrLog = <<>>

SetupNext ==
  \/ InitializeParallel
  \/ \E w \in Dims, h \in Dims, begin \in BOOLEAN : ParallelUpdateSetup(w, h, begin)
  \/ ParallelUpdateRun

SpecSetup == SetupInit /\ [][SetupNext]_vars

\* C17: for every width, height and partition size the partitions tile the
\* grid: each in-grid cell's partition id is below the partition count, the
\* cell lies inside the bounds of that partition and of no other, and the
\* phase-2 terrain tasks of a tick visit every cell exactly once.
C17_PartitionsTileGrid ==
  LET s == eco[1]
      sp == s.spatial_partition_
  IN s.ticks > 0 =>
       /\ s.outside = {}
       /\ \A c \in GridCells(s.terrainW, s.terrainH) :
            /\ SP_GetPartitionId(sp, c[1], c[2]) < sp.partition_count_
            /\ \A id \in 0..(sp.partition_count_ - 1) :
                 InBounds(SP_GetPartitionBounds(sp, id), c[1], c[2])
                   <=> id = SP_GetPartitionId(sp, c[1], c[2])
            /\ s.visits[c] = 1

(***************************************************************************)
(* SpecPath: one Terrain::GetShortestPath search on an open grid.  terr is *)
(* the Terrain: its node layer, the search's priority queue and result.    *)
(* Costs are exact: <<a, b>> stands for a + b * sqrt(2).  The              *)
(* std::priority_queue is its std::vector under the GNU library's          *)
(* push_heap and pop_heap.                                                 *)
(***************************************************************************)
PathW == 6
PathH == 3
QueueLimit == 1000

PathCells == (0..(PathW - 1)) \X (0..(PathH - 1))

\* The cells searches start from and go to.
PathEnds == {<<1, 0>>, <<5, 1>>, <<3, 2>>, <<0, 0>>} \cap PathCells

\* The destinations of searches: the same cells, and positions outside the
\* grid such as the GridPos{-1, -1} the position queries return.
PathDests == PathEnds \cup {<<-1, -1>>, <<PathW, 1>>}

\* nullptr as a predecessor.
NoCell == <<-1, -1>>

\* std::numeric_limits<float>::infinity().
Infinity == <<-1, -1>>

\* The sign of a + b * sqrt(2).
SignRoot2(a, b) ==
  IF a = 0 /\ b = 0 THEN 0
  ELSE IF a >= 0 /\ b >= 0 THEN 1
  ELSE IF a <= 0 /\ b <= 0 THEN -1
  ELSE IF a > 0 THEN (IF a * a > 2 * b * b THEN 1 ELSE -1)
  ELSE (IF 2 * b * b > a * a THEN 1 ELSE -1)

\* x < y and x <= y on costs, infinity included.
CostLess(x, y) ==
  /\ x # Infinity
  /\ (y = Infinity \/ SignRoot2(x[1] - y[1], x[2] - y[2]) < 0)

CostLeq(x, y) == ~CostLess(y, x)

CostAdd(x, y) == <<x[1] + y[1], x[2] + y[2]>>

\* GetOctileCost(x, y) = Max(x, y) + (SQRT_2 - 1) * Min(x, y).
GetOctileCost(x, y) == <<Max(x, y) - Min(x, y), Min(x, y)>>

\* Node::operator< through Comp: a orders before b when its fcost is greater.
Comp(layer, a, b) == CostLess(layer[b].fcost, layer[a].fcost)

\* std::__push_heap(first, holeIndex, topIndex, value): indices from 0.
RECURSIVE PushHeapFrom(_, _, _, _, _)
PushHeapFrom(h, layer, holeIndex, topIndex, value) ==
  LET parent == (holeIndex - 1) \div 2
  IN IF holeIndex > topIndex /\ Comp(layer, h[parent + 1], value)
       THEN PushHeapFrom([h EXCEPT ![holeIndex + 1] = h[parent + 1]], layer,
                         parent, topIndex, value)
       ELSE [h EXCEPT ![holeIndex + 1] = value]

\* std::__adjust_heap(first, holeIndex, len, value) with topIndex 0.
RECURSIVE AdjustHeap(_, _, _, _, _)
AdjustHeap(h, layer, holeIndex, len, value) ==
  IF holeIndex < (len - 1) \div 2
    THEN LET right == 2 * (holeIndex + 1)
             secondChild == IF Comp(layer, h[right + 1], h[right]) THEN right - 1 ELSE right
         IN AdjustHeap([h EXCEPT ![holeIndex + 1] = h[secondChild + 1]], layer,
                       secondChild, len, value)
    ELSE IF len % 2 = 0 /\ holeIndex = (len - 2) \div 2
      THEN LET only == 2 * (holeIndex + 1) - 1
           IN PushHeapFrom([h EXCEPT ![holeIndex + 1] = h[only + 1]], layer, only, 0, value)
      ELSE PushHeapFrom(h, layer, holeIndex, 0, value)

\* priority_queue::push: push_back, then push_heap.
QueuePush(q, layer, c) == PushHeapFrom(Append(q, c), layer, Len(q), 0, c)

\* A pop that leaves the top of the queue in place.
QueuePopKeeping(q, layer) == q

\* priority_queue::pop: pop_heap, then pop_back.
QueuePop(q, layer) ==
  LET n == Len(q)
  IN IF n = 1 THEN <<>>
     ELSE SubSeq(AdjustHeap([q EXCEPT ![n] = q[1]], layer, 0, n - 1, q[n]), 1, n - 1)

\* The queues that pushing the cells of S in a shuffled order can leave.
RECURSIVE PushShuffled(_, _, _)
PushShuffled(q, layer, S) ==
  IF S = {} THEN {q}
  ELSE UNION {PushShuffled(QueuePush(q, layer, c), layer, S \ {c}) : c \in S}

\* GetNeighbours: the neighbour is skipped when its fcost is no more than the
\* cost this expansion offers.
SkipsCostlier(layer, c, f) == CostLeq(layer[c].fcost, f)

StepCost(src, c) == IF c[1] = src[1] \/ c[2] = src[2] THEN <<1, 0>> ELSE <<0, 1>>

\* The heuristic of cell c towards dest.
Heuristic(c, dest) == GetOctileCost(Abs(dest[1] - c[1]), Abs(dest[2] - c[2]))

\* GetNeighbours(_src, _dest, _curT, _prev): the in-grid neighbours that pass
\* the cost test and the two-node cycle test.
Expanded(layer, src, dest, curT, prev) ==
  {c \in PathCells :
     /\ c # src /\ Abs(c[1] - src[1]) <= 1 /\ Abs(c[2] - src[2]) <= 1
     /\ ~SkipsCostlier(layer, c, CostAdd(Heuristic(c, dest), CostAdd(curT, StepCost(src, c))))
     /\ ~(prev # NoCell /\ layer[prev].mpPrev = c)}

\* A GetNeighbours that makes every neighbour it reaches its own predecessor.
GetNeighboursSelfLinked(layer, src, dest, curT, prev) ==
  [c \in PathCells |->
     IF c \in Expanded(layer, src, dest, curT, prev)
       THEN [hcost |-> Heuristic(c, dest),
             tcost |-> CostAdd(curT, StepCost(src, c)),
             fcost |-> CostAdd(Heuristic(c, dest), CostAdd(curT, StepCost(src, c))),
             mpPrev |-> c]
       ELSE layer[c]]

\* GetNeighbours: the node layer after the neighbours took their new costs
\* and predecessor.
GetNeighbours(layer, src, dest, curT, prev) ==
  [c \in PathCells |->
     IF c \in Expanded(layer, src, dest, curT, prev)
       THEN [hcost |-> Heuristic(c, dest),
             tcost |-> CostAdd(curT, StepCost(src, c)),
             fcost |-> CostAdd(Heuristic(c, dest), CostAdd(curT, StepCost(src, c))),
             mpPrev |-> prev]
       ELSE layer[c]]

\* The predecessor chain of c, oldest first, followed for at most fuel links.
RECURSIVE ChainTo(_, _, _)
ChainTo(layer, c, fuel) ==
  IF c = NoCell \/ fuel = 0 THEN <<>>
  ELSE Append(ChainTo(layer, layer[c].mpPrev, fuel - 1), c)

\* Following mpPrev from c reaches nullptr.
RECURSIVE ReachesRoot(_, _, _)
ReachesRoot(layer, c, fuel) ==
  \/ c = NoCell
  \/ fuel > 0 /\ ReachesRoot(layer, layer[c].mpPrev, fuel - 1)

\* The Terrain after Init: Node{GridPos, 0, 0} everywhere.
NewPathTerrain ==
  [mNodeLayer |-> [c \in PathCells |-> [hcost |-> <<0, 0>>, tcost |-> <<0, 0>>,
                                         fcost |-> <<0, 0>>, mpPrev |-> NoCell]],
   q |-> <<>>, src |-> NoCell, dest |-> NoCell, result |-> <<>>,
   pc |-> "idle", reparented |-> FALSE, turns |-> 0]

\* GetShortestPath up to its loop: every node reset, the neighbours of _src
\* pushed.
GetShortestPathBegin(src, dest) ==
  LET reset == [c \in PathCells |-> [hcost |-> Infinity, tcost |-> Infinity,
                                      fcost |-> Infinity, mpPrev |-> NoCell]]
      layer == GetNeighbours(reset, src, dest, <<0, 0>>, NoCell)
  IN /\ terr.pc = "idle"
     /\ \E q \in PushShuffled(<<>>, layer, Expanded(reset, src, dest, <<0, 0>>, NoCell)) :
          terr' = [terr EXCEPT !.mNodeLayer = layer, !.q = q, !.src = src,
                               !.dest = dest, !.pc = "search"]
     /\ UNCHANGED <<rwl, terrLog, eco>>

\* One turn of GetShortestPath's loop, or its end.  Walking a predecessor
\* chain that never reaches nullptr does not end.
GetShortestPathStep ==
  LET layer == terr.mNodeLayer
      cur == terr.q[1]
      rest == QueuePop(terr.q, layer)
      grown == Expanded(layer, cur, terr.dest, layer[cur].tcost, cur)
      after == GetNeighbours(layer, cur, terr.dest, layer[cur].tcost, cur)
  IN /\ terr.pc = "search"
     /\ IF terr.q = <<>> \/ Len(rest) > QueueLimit
          THEN terr' = [terr EXCEPT !.pc = "done", !.result = <<>>, !.turns = @ + 1]
          ELSE IF cur = terr.dest
            THEN terr' = [terr EXCEPT
                            !.q = rest, !.turns = @ + 1,
                            !.pc = IF ReachesRoot(layer, cur, Cardinality(PathCells))
                                     THEN "done" ELSE "hung",
                            !.result = ChainTo(layer, cur, Cardinality(PathCells))]
            ELSE \E q \in PushShuffled(rest, after, grown) :
                   terr' = [terr EXCEPT
                              !.mNodeLayer = after, !.q = q, !.turns = @ + 1,
                              !.reparented = @ \/ \E c \in grown : layer[c].fcost # Infinity]
     /\ UNCHANGED <<rwl, terrLog, eco>>

PathInit ==
  /\ terr = NewPathTerrain
  /\ rwl = <<>>
  /\ terrLog = <<>>
  /\ eco = <<>>

PathNext ==
  \/ \E src \in PathEnds, dest \in PathDests : GetShortestPathBegin(src, dest)
  \/ GetShortestPathStep

SpecPath == PathInit /\ [][PathNext]_vars

\* The cost of walking path from cell a.
RECURSIVE WalkCost(_, _)
WalkCost(a, path) ==
  IF path = <<>> THEN <<0, 0>>
  ELSE CostAdd(StepCost(a, Head(path)), WalkCost(Head(path), Tail(path)))

\* C18: GetShortestPath(a, a) returns an empty path.
C18_SamePlaceEmptyPath ==
  (terr.pc = "done" /\ terr.src = terr.dest) => terr.result = <<>>

\* C19: on an open grid GetShortestPath(a, b), a # b, returns under every
\* shuffle a path that ends at b, has max(|dx|, |dy|) cells and costs the
\* octile distance from a to b.
C19_PathMatchesOctileDistance ==
  (terr.pc = "done" /\ terr.src # terr.dest /\ terr.dest \in PathCells) =>
    LET dx == Abs(terr.dest[1] - terr.src[1])
        dy == Abs(terr.dest[2] - terr.src[2])
    IN /\ terr.result # <<>>
       /\ terr.result[Len(terr.result)] = terr.dest
       /\ Len(terr.result) = Max(dx, dy)
       /\ WalkCost(terr.src, terr.result) = GetOctileCost(dx, dy)

\* C20: at every point of a search the predecessor links of every node lead
\* to a node without predecessor, and no returned path holds a cell twice.
C20_PredecessorChainsAcyclic ==
  /\ terr.pc # "hung"
  /\ terr.pc \in {"search", "done"} =>
       \A c \in PathCells : ReachesRoot(terr.mNodeLayer, c, Cardinality(PathCells))
  /\ \A i, j \in DOMAIN terr.result : i # j => terr.result[i] # terr.result[j]

\* A search that gave an already reached node a new predecessor returned a
\* path of three cells or more.
C20_Witness ==
  /\ terr.pc = "done"
  /\ terr.reparented
  /\ Len(terr.result) >= 3

\* C21: every GetShortestPath call returns: each turn of its loop ends the
\* call or leaves no node dearer and either makes some node cheaper or the
\* queue shorter, which can go on only finitely often; a call whose
\* destination is outside the grid, so never reached, returns an empty path.
C21_SearchTerminates ==
  [][terr.pc = "search" =>
       /\ terr'.pc \in {"search", "done"}
       /\ terr'.pc = "search" =>
            /\ \A c \in PathCells :
                 CostLeq(terr'.mNodeLayer[c].fcost, terr.mNodeLayer[c].fcost)
            /\ \/ \E c \in PathCells :
                    CostLess(terr'.mNodeLayer[c].fcost, terr.mNodeLayer[c].fcost)
               \/ Len(terr'.q) < Len(terr.q)
       /\ (terr'.pc = "done" /\ terr.dest \notin PathCells) =>
            terr'.result = <<>>]_vars

\* A search for a destination outside the grid ended with its queue used up.
C21_Witness ==
  /\ terr.pc = "done"
  /\ terr.dest \notin PathCells
  /\ terr.q = <<>>
  /\ terr.result = <<>>
  /\ terr.turns > Cardinality(PathCells)
  /\ \A c \in PathCells \ {terr.src} : terr.mNodeLayer[c].fcost # Infinity

(***************************************************************************)
(* SpecGrass: one Terrain::GetBestGrassPos query on the grid of SpecPath.  *)
(* terr is the Terrain: its grass layer and thresholds, its node layer,    *)
(* the query's priority queue, the cells it collected and its return.      *)
(***************************************************************************)
\* The cells that hold grass, and how much each can hold.
GrassSpots == {<<1, 0>>, <<1, 1>>, <<2, 1>>}
GrassLevels == {One \div 2, One, One + One \div 2, 2 * One}

\* The positions queries are made from, their _limit and their _minAlpha.
GrassSrcs == {<<0, 0>>, <<1, 2>>}
GrassLimits == {One \div 2, One + One \div 2}
GrassMinAlphas == {One \div 4}

\* mGrassLayer / (mGrassThresh.second - mGrassThresh.first) of cell c.
GrassFraction(t, c) ==
  FDiv(t.mGrassLayer[c], t.mGrassThresh[c][2] - t.mGrassThresh[c][1])

\* getNeigh(_src, _mapLay, _curT): the in-grid cells around _src, _src
\* included, whose fcost is more than the cost this expansion offers.
getNeigh(layer, src, curT) ==
  {c \in PathCells :
     /\ Abs(c[1] - src[1]) <= 1 /\ Abs(c[2] - src[2]) <= 1
     /\ ~CostLeq(layer[c].fcost, CostAdd(curT, StepCost(src, c)))}

\* getNeigh: the node layer after those cells took their new costs.
getNeighLayer(layer, src, curT) ==
  [c \in PathCells |->
     IF c \in getNeigh(layer, src, curT)
       THEN [hcost |-> <<0, 0>>,
             tcost |-> CostAdd(curT, StepCost(src, c)),
             fcost |-> CostAdd(curT, StepCost(src, c)),
             mpPrev |-> layer[c].mpPrev]
       ELSE layer[c]]

\* The orders std::shuffle can leave a vector in.
RECURSIVE Shuffled(_)
Shuffled(v) ==
  IF v = <<>> THEN {<<>>}
  ELSE UNION {{<<v[i]>> \o r :
                 r \in Shuffled(SubSeq(v, 1, i - 1) \o SubSeq(v, i + 1, Len(v)))} :
              i \in DOMAIN v}

\* The loop over result[1..]: highestId after looking at index i and beyond.
\* highestV stays the fraction of result[0].
RECURSIVE HighestFrom(_, _, _, _, _)
HighestFrom(t, result, i, highestId, highestV) ==
  IF i > Len(result) THEN highestId
  ELSE HighestFrom(t, result, i + 1,
                   IF GrassFraction(t, result[i]) > highestV THEN i ELSE highestId,
                   highestV)

\* The Terrain after Init, with grass grown on the spots.
GrassTerrains ==
  { [mGrassLayer |-> [c \in PathCells |-> IF c \in GrassSpots THEN g[c] ELSE 0],
     mGrassThresh |-> [c \in PathCells |-> <<0, 2 * One>>],
     mNodeLayer |-> NewPathTerrain.mNodeLayer,
     q |-> <<>>, src |-> NoCell, limit |-> 0, minAlpha |-> 0,
     result |-> <<>>, ret |-> NoCell, pc |-> "idle"] :
    g \in [GrassSpots -> GrassLevels] }

\* GetBestGrassPos up to its loop: every node reset, the cells around _src
\* pushed.
GetBestGrassPosBegin(src, limit, minAlpha) ==
  LET reset == [c \in PathCells |-> [hcost |-> Infinity, tcost |-> Infinity,
                                      fcost |-> Infinity, mpPrev |-> NoCell]]
      layer == getNeighLayer(reset, src, <<0, 0>>)
  IN /\ terr.pc = "idle"
     /\ \E q \in PushShuffled(<<>>, layer, getNeigh(reset, src, <<0, 0>>)) :
          terr' = [terr EXCEPT !.mNodeLayer = layer, !.q = q, !.src = src,
                               !.limit = limit, !.minAlpha = minAlpha,
                               !.pc = "search"]
     /\ UNCHANGED <<rwl, terrLog, eco>>

\* One turn of GetBestGrassPos's loop: the top is popped, collected when its
\* grass fraction is more than _minAlpha, and expanded when it is nearer to
\* _src than _limit.
GetBestGrassPosStep ==
  LET layer == terr.mNodeLayer
      cur == terr.q[1]
      rest == QueuePop(terr.q, layer)
      near == ((cur[1] - terr.src[1]) * (cur[1] - terr.src[1])
               + (cur[2] - terr.src[2]) * (cur[2] - terr.src[2])) * One * One
                < terr.limit * terr.limit
      grown == IF near THEN getNeigh(layer, cur, layer[cur].fcost) ELSE {}
      after == IF near THEN getNeighLayer(layer, cur, layer[cur].fcost) ELSE layer
      collected == IF GrassFraction(terr, cur) > terr.minAlpha
                     THEN Append(terr.result, cur) ELSE terr.result
  IN /\ terr.pc = "search"
     /\ terr.q # <<>>
     /\ \E q \in PushShuffled(rest, after, grown) :
          terr' = [terr EXCEPT !.mNodeLayer = after, !.q = q, !.result = collected]
     /\ UNCHANGED <<rwl, terrLog, eco>>

\* GetBestGrassPos after its loop: the collected cells are shuffled and the
\* one at highestId is returned, GridPos{-1, -1} when none was collected.
GetBestGrassPosReturn ==
  /\ terr.pc = "search"
  /\ terr.q = <<>>
  /\ \E result \in Shuffled(terr.result) :
       terr' = [terr EXCEPT
                  !.result = result,
                  !.ret = IF result = <<>> THEN <<-1, -1>>
                          ELSE result[HighestFrom(terr, result, 2, 1,
                                                  GrassFraction(terr, result[1]))],
                  !.pc = "done"]
  /\ UNCHANGED <<rwl, terrLog, eco>>

GrassInit ==
  /\ terr \in GrassTerrains
  /\ rwl = <<>>
  /\ terrLog = <<>>
  /\ eco = <<>>

GrassNext ==
  \/ \E src \in GrassSrcs, limit \in GrassLimits, minAlpha \in GrassMinAlphas :
       GetBestGrassPosBegin(src, limit, minAlpha)
  \/ GetBestGrassPosStep
  \/ GetBestGrassPosReturn

SpecGrass == GrassInit /\ [][GrassNext]_vars

\* C22: when GetBestGrassPos collected a cell, the cell it returns has the
\* highest grass fraction of the collected cells, whatever the shuffle.
C22_ReturnsHighestFraction ==
  (terr.pc = "done" /\ terr.result # <<>>) =>
    \A i \in DOMAIN terr.result :
      GrassFraction(terr, terr.ret) >= GrassFraction(terr, terr.result[i])

\* C23: a cell GetBestGrassPos returns, other than GridPos{-1, -1}, is no
\* farther from _src than _limit and has a grass fraction above _minAlpha.
C23_ReturnWithinRadiusAndQuality ==
  (terr.pc = "done" /\ terr.ret # <<-1, -1>>) =>
    /\ ((terr.ret[1] - terr.src[1]) * (terr.ret[1] - terr.src[1])
        + (terr.ret[2] - terr.src[2]) * (terr.ret[2] - terr.src[2])) * One * One
         <= terr.limit * terr.limit
    /\ GrassFraction(terr, terr.ret) > terr.minAlpha

(***************************************************************************)
(* SpecNeighbour: Terrain::GetEmptyNeighbour on a grid of occupied and     *)
(* empty cells.  terr is the Terrain's space layer with the last call's    *)
(* argument and return.                                                    *)
(***************************************************************************)
NbW == 3
NbH == 3

NbCells == (0..(NbW - 1)) \X (0..(NbH - 1))

\* static_cast<unsigned>(n) >= w for an int n and a width or height w: a
\* negative n casts to 2^31 or more, above every grid dimension.
UnsignedAtLeast(n, w) == n < 0 \/ n >= w

\* The offsets <<i, j>> in the order the two for loops visit them; <<0, 0>>
\* is passed over by the continue.
ScanOffsetsColumnFirst ==
  <<<<-1, -1>>, <<-1, 0>>, <<-1, 1>>, <<0, -1>>, <<0, 1>>, <<1, -1>>, <<1, 0>>, <<1, 1>>>>

ScanOffsets ==
  <<<<-1, -1>>, <<0, -1>>, <<1, -1>>, <<-1, 0>>, <<1, 0>>, <<-1, 1>>, <<0, 1>>, <<1, 1>>>>

\* GetEmptyNeighbour(_src) from the k-th offset on.
RECURSIVE GetEmptyNeighbourFrom(_, _, _, _, _)
GetEmptyNeighbourFrom(mSpaceLayer, mnWidth, mnHeight, src, k) ==
  IF k > Len(ScanOffsets) THEN <<-1, -1>>
  ELSE LET c == <<src[1] + ScanOffsets[k][1], src[2] + ScanOffsets[k][2]>>
       IN IF UnsignedAtLeast(c[1], mnWidth) \/ UnsignedAtLeast(c[2], mnHeight)
            THEN GetEmptyNeighbourFrom(mSpaceLayer, mnWidth, mnHeight, src, k + 1)
            ELSE IF mSpaceLayer[c] = -1 THEN c
            ELSE GetEmptyNeighbourFrom(mSpaceLayer, mnWidth, mnHeight, src, k + 1)

GetEmptyNeighbour(src) ==
  /\ terr' = [terr EXCEPT !.src = src, !.pc = "returned",
                          !.ret = GetEmptyNeighbourFrom(terr.mSpaceLayer, NbW, NbH, src, 1)]
  /\ UNCHANGED <<rwl, terrLog, eco>>

\* Every cell empty (-1) or holding the creature with index 0.
NeighbourInit ==
  /\ terr \in { [mSpaceLayer |-> sp, src |-> <<0, 0>>, ret |-> <<0, 0>>, pc |-> "idle"] :
                sp \in [NbCells -> {-1, 0}] }
  /\ rwl = <<>>
  /\ terrLog = <<>>
  /\ eco = <<>>

NeighbourNext == \E src \in NbCells : GetEmptyNeighbour(src)

SpecNeighbour == NeighbourInit /\ [][NeighbourNext]_vars

\* C24: GetEmptyNeighbour(src) returns the first empty in-grid 8-neighbour
\* of src by rows y-1 to y+1 and within a row by x-1 to x+1, never src or a
\* cell outside the grid, and GridPos{-1, -1} exactly when no in-grid
\* neighbour is empty.
C24_FirstEmptyNeighbour ==
  terr.pc = "returned" =>
    LET empty == {c \in NbCells :
                    /\ c # terr.src
                    /\ Abs(c[1] - terr.src[1]) <= 1 /\ Abs(c[2] - terr.src[2]) <= 1
                    /\ terr.mSpaceLayer[c] = -1}
    IN /\ terr.ret = <<-1, -1>> <=> empty = {}
       /\ terr.ret # <<-1, -1>> =>
            /\ terr.ret \in empty
            /\ \A e \in empty :
                 e[2] > terr.ret[2] \/ (e[2] = terr.ret[2] /\ e[1] >= terr.ret[1])

\* A call from the middle cell that passed over an occupied neighbour of the
\* first row and returned the next cell of that row although a cell of the
\* first column was empty too.
C24_Witness ==
  /\ terr.pc = "returned"
  /\ terr.src = <<1, 1>>
  /\ terr.mSpaceLayer[<<0, 0>>] = 0
  /\ terr.mSpaceLayer[<<0, 1>>] = -1
  /\ terr.ret = <<1, 0>>

(***************************************************************************)
(* SpecAccess: the grid accessors called with coordinates inside and       *)
(* outside the grid.  terr is the Terrain's grass and space layers with    *)
(* the size of the registry; terrLog is the last call: its arguments, the  *)
(* positions it indexed the layers at, its return and whether it returned. *)
(***************************************************************************)
MaxAccessCalls == 2

AccessOps ==
  {"ConsumeGrass", "GetGrassVal", "GetGrassValA", "GetGridVal",
   "GetGrassValueThreadSafe", "ConsumeGrassThreadSafe"}

\* The accessor's bounds test sends the call back.
BoundsReject(op, x, y) ==
  IF op \in {"ConsumeGrass", "GetGrassVal", "GetGrassValA"}
    THEN x > GridW \/ y > GridH
    ELSE x >= GridW \/ y >= GridH

\* What the accessor returns when its bounds test sends the call back.
NoOpValue(op) == IF op = "GetGridVal" THEN -1 ELSE 0

\* What indexing a layer beyond its rows or beyond a row can read.
StrayValues == {0, One, -1}

\* One call of an accessor.  A call that passes the bounds test with a
\* position outside the grid indexes a vector out of range: it returns any
\* value or does not return.
GridAccess(op, x, y, amount) ==
  LET c == <<x, y>>
      call == [op |-> op, x |-> x, y |-> y, touched |-> {c}, ret |-> 0,
               returned |-> TRUE, calls |-> terrLog.calls + 1]
  IN IF BoundsReject(op, x, y) \/ (op = "ConsumeGrassThreadSafe" /\ amount <= 0)
       THEN /\ terrLog' = [call EXCEPT !.touched = {}, !.ret = NoOpValue(op)]
            /\ terr' = terr
       ELSE IF c \notin Cells
         THEN /\ \E v \in StrayValues, returned \in BOOLEAN :
                   terrLog' = [call EXCEPT !.ret = v, !.returned = returned]
              /\ terr' = terr
       ELSE IF op = "ConsumeGrass"
         THEN LET r == TerrainConsumeGrass(terr, c, One)
              IN terr' = r[1] /\ terrLog' = [call EXCEPT !.ret = r[2]]
       ELSE IF op = "ConsumeGrassThreadSafe"
         THEN LET r == TerrainConsumeGrassThreadSafe(terr, c, amount)
              IN terr' = r[1] /\ terrLog' = [call EXCEPT !.ret = r[2]]
       ELSE /\ terr' = terr
            /\ terrLog' =
                 [call EXCEPT !.ret =
                    IF op = "GetGrassValA"
                      THEN FDiv(terr.mGrassLayer[c], terr.mGrassThresh[c][2])
                    ELSE IF op = "GetGridVal"
                      THEN IF terr.mSpaceLayer[c] >= 0 /\ terr.mSpaceLayer[c] >= terr.size
                             THEN -1 ELSE terr.mSpaceLayer[c]
                    ELSE terr.mGrassLayer[c]]

Access(op, x, y, amount) ==
  /\ terrLog.calls < MaxAccessCalls
  /\ GridAccess(op, x, y, amount)
  /\ UNCHANGED <<rwl, eco>>

AccessInit ==
  /\ terr \in { [mGrassLayer |-> g, mGrassThresh |-> [c \in Cells |-> <<0, 2 * One>>],
                 mSpaceLayer |-> sp, size |-> n] :
                g \in {[c \in Cells |-> v] : v \in InitGrass},
                sp \in [Cells -> {-1, 0}], n \in {0, 1} }
  /\ terrLog = [op |-> "none", x |-> 0, y |-> 0, touched |-> {}, ret |-> 0,
                returned |-> TRUE, calls |-> 0]
  /\ rwl = <<>>
  /\ eco = <<>>

AccessNext ==
  \E op \in AccessOps, x \in 0..(GridW + 1), y \in 0..(GridH + 1),
     amount \in ConsumeAmounts : Access(op, x, y, amount)

SpecAccess == AccessInit /\ [][AccessNext]_vars

\* C26: a grid accessor called with x >= width or y >= height returns its
\* no-op value (0, or -1 for GetGridVal) without indexing any layer, and
\* leaves the terrain as it was.
C26_OutOfGridCallsAreNoOps ==
  [][(terrLog'.op # "none" /\ (terrLog'.x >= GridW \/ terrLog'.y >= GridH)) =>
       /\ terrLog'.returned
       /\ terrLog'.ret = NoOpValue(terrLog'.op)
       /\ terrLog'.touched = {}
       /\ terr' = terr]_vars

(***************************************************************************)
(* SpecSerial: the serial EcoSystem::Update on the grid of SpecTerrain:    *)
(* UpdateCreatures creature by creature, CleanUpDead, UpdateMap, and the   *)
(* spawn tool of UpdateTools.  The terrain's own Update is SpecTerrain's.  *)
(* eco is the EcoSystem.  Energies, sizes and times are fixed-point with   *)
(* Unit for 1.0.                                                           *)
(***************************************************************************)
Unit == 80
MaxSerialCreatures == 3
MaxSerialTicks == 2

\* gActionCost, in Units.
gActionCost == [MOVE |-> 16, EAT |-> 0, IDLE |-> 1, REPLICATE |-> 40]

\* GetActionCost(size, speed, sense, energy, e, _modifier) of creature c.
GetActionCost(c, e, modifier) ==
  LET sq == (2 * c.mfSize * c.mfSize) \div Unit
      k == (((sq * c.mfSpeed) \div Unit) * c.mfSpeed) \div Unit + c.mfSense + c.mfSize
      cost == (gActionCost[e] * (k + c.mfEnergy[1]) + gActionCost[e] * c.mfEnergy[1])
                \div (2 * Unit)
  IN (cost * modifier) \div Unit

\* A creature as Data::SpawnCreature builds it, its energy as later ticks
\* leave it.
SerialCreature(kind, size, energy, pos) ==
  [kind |-> kind, mfSize |-> size, mfSpeed |-> Unit, mfSense |-> Unit,
   mfEnergy |-> energy, dead |-> FALSE, pos |-> pos, mCurPath |-> <<>>,
   mfAccPathDt |-> 0]

\* Creature::ConsumeEnergy(_f) of creature i: what it lacks goes to the map.
CreatureConsumeEnergy(s, i, f) ==
  LET c == s.mAllCreatures[i]
  IN [s EXCEPT
        !.mFertilizerLayer[c.pos] = IF f > c.mfEnergy[1] THEN @ + (f - c.mfEnergy[1]) ELSE @,
        !.mAllCreatures[i].mfEnergy[1] = Clamp(0, c.mfEnergy[2], c.mfEnergy[1] - f)]

\* sqrt of the squared distances met on the grid.
Sqrt(n) == CHOOSE r \in 0..n : r * r <= n /\ (r + 1) * (r + 1) > n

\* The while loop of Creature::Move.
RECURSIVE MoveWhile(_, _)
MoveWhile(s, i) ==
  LET c == s.mAllCreatures[i]
      front == c.mCurPath[1]
      euc == (front[1] - c.pos[1]) * (front[1] - c.pos[1])
             + (front[2] - c.pos[2]) * (front[2] - c.pos[2])
      tReq == (Sqrt(euc) * Unit * Unit) \div c.mfSpeed
  IN IF c.mCurPath = <<>> \/ ~(c.mfAccPathDt > tReq) THEN s
     ELSE LET moved == [s EXCEPT !.mAllCreatures[i].mfAccPathDt = @ - tReq,
                                 !.mAllCreatures[i].pos = front]
              paid == CreatureConsumeEnergy(moved, i,
                        GetActionCost(moved.mAllCreatures[i], "MOVE", Unit))
          IN MoveWhile([paid EXCEPT !.mAllCreatures[i].mCurPath = Tail(@)], i)

\* Creature::Move(_dt).
CreatureMove(s, i, dt) == MoveWhile([s EXCEPT !.mAllCreatures[i].mfAccPathDt = @ + dt], i)

\* Data::SpawnCreature<T>(_x, _y, ...): a new creature with the base energy
\* of its species joins the registry.
SpawnCreature(s, kind, size, pos) ==
  [s EXCEPT !.mAllCreatures =
     Append(@, SerialCreature(kind, size,
                              IF kind = "Fox" THEN <<1600 * Unit, 2000 * Unit>>
                                              ELSE <<500 * Unit, 1000 * Unit>>, pos)),
            !.spawned = Append(@, [at |-> pos,
                                   onto |-> {j \in DOMAIN s.mAllCreatures :
                                               s.mAllCreatures[j].pos = pos}])]

\* Creature::Replicate() when the replication draw succeeds, the child's size
\* the parent's or a mutated one.
Replicate(s, i, size) ==
  LET c == s.mAllCreatures[i]
      p == GetEmptyNeighbourFrom(s.mSpaceLayer, GridW, GridH, c.pos, 1)
  IN IF p[1] < 0 \/ p[2] < 0 \/ Len(s.mAllCreatures) >= MaxSerialCreatures THEN s
     ELSE SpawnCreature(CreatureConsumeEnergy(s, i, GetActionCost(c, "REPLICATE", Unit)),
                        c.kind, size, p)

\* EcoSystem::Eat(_p, _predator) with predator i: <<eco, returned>>.  lastEat
\* observes the call.
EcoEat(s, p, i) ==
  LET pred == s.mAllCreatures[i]
      o == s.mSpaceLayer[p]
      registered == o >= 0 /\ o < Len(s.mAllCreatures)
      call == [predator |-> i, occupant |-> IF registered THEN o + 1 ELSE 0,
               predatorKind |-> pred.kind, predatorSize |-> pred.mfSize,
               occupantKind |-> IF registered THEN s.mAllCreatures[o + 1].kind ELSE "none",
               occupantSize |-> IF registered THEN s.mAllCreatures[o + 1].mfSize ELSE 0,
               occupantEnergy |-> IF registered THEN s.mAllCreatures[o + 1].mfEnergy[1] ELSE 0,
               outcome |-> "grass", ret |-> 0]
      grass(t) == LET r == TerrainConsumeGrass(t, p, One)
                  IN <<[t EXCEPT !.mGrassLayer = r[1].mGrassLayer,
                                 !.lastEat = [call EXCEPT !.ret = r[2]]], r[2]>>
  IN IF 4 * ((p[1] - pred.pos[1]) * (p[1] - pred.pos[1])
             + (p[2] - pred.pos[2]) * (p[2] - pred.pos[2])) > 9
       THEN <<[s EXCEPT !.lastEat = [call EXCEPT !.outcome = "far"]], 0>>
     ELSE IF ~registered
       THEN grass([s EXCEPT !.mSpaceLayer[p] = -1])
     ELSE IF o + 1 = i
       THEN IF pred.kind = "Fox"
              THEN <<[s EXCEPT !.lastEat = [call EXCEPT !.outcome = "self"]], 0>>
              ELSE grass(s)
     ELSE IF s.mAllCreatures[o + 1].kind = "Fox" /\ pred.kind = "Rabbit"
       THEN grass(s)
     ELSE IF 10 * s.mAllCreatures[o + 1].mfSize < 12 * pred.mfSize
       THEN <<[s EXCEPT !.mAllCreatures[o + 1].dead = TRUE,
                        !.mAllCreatures[o + 1].mfEnergy = <<0, 0>>,
                        !.eaten = @ \cup {o + 1},
                        !.lastEat = [call EXCEPT !.outcome = "eaten",
                                                 !.ret = s.mAllCreatures[o + 1].mfEnergy[1]]],
              s.mAllCreatures[o + 1].mfEnergy[1]>>
     ELSE grass(s)

\* Creature::Eat() of creature i; rep is 0 when the replication draw fails,
\* else the size of the child.
CreatureEat(s, i, rep) ==
  LET r == EcoEat(s, s.mAllCreatures[i].pos, i)
      c == r[1].mAllCreatures[i]
      v == r[2]
      fed == [r[1] EXCEPT
                !.mFertilizerLayer[c.pos] =
                   IF c.mfEnergy[1] + v > c.mfEnergy[2]
                     THEN @ + (c.mfEnergy[1] + v - c.mfEnergy[2]) ELSE @,
                !.mAllCreatures[i].mfEnergy[1] =
                   Clamp(c.mfEnergy[1], c.mfEnergy[2], c.mfEnergy[1] + v)]
      mfReplicationThresh == IF c.kind = "Fox" THEN (35 * Unit) \div 100
                                                ELSE (70 * Unit) \div 100
  IN IF fed.mAllCreatures[i].mfEnergy[2] > 0
        /\ (fed.mAllCreatures[i].mfEnergy[1] * Unit) \div fed.mAllCreatures[i].mfEnergy[2]
             >= mfReplicationThresh
        /\ rep # 0
       THEN Replicate(fed, i, rep)
       ELSE fed

\* What UpdateAwakeBehaviour can do: nothing, Eat() (a Rabbit only where
\* GetGrassValA is above 0.1), or SetMovement to a path of one step.
Behaviours(c) ==
  {[do |-> "none", path |-> <<>>, rep |-> 0]}
  \cup {[do |-> "eat", path |-> <<>>, rep |-> r] :
          r \in {0, c.mfSize, Clamp(1, 100 * Unit, c.mfSize + Unit \div 10)}}
  \cup {[do |-> "move", path |-> <<d>>, rep |-> 0] :
          d \in {d \in Cells : Abs(d[1] - c.pos[1]) <= 1 /\ Abs(d[2] - c.pos[2]) <= 1}}

\* No creature has been flagged dead by its own UpdateAwake.
NoDeath == [died |-> FALSE, i |-> 0, energy |-> 0, after |-> 0, acted |-> {}]

\* Creature::UpdateAwake(_dt) of creature i with behaviour b.  lastAwake
\* observes a call that flags its own creature dead: the energy at that
\* moment and at the end of the call, and what the creature did in between.
CreatureUpdateAwake(s, i, dt, b) ==
  IF dt <= 0 THEN s
  ELSE LET idled == CreatureConsumeEnergy(s, i, GetActionCost(s.mAllCreatures[i], "IDLE", dt))
           flagged == [idled EXCEPT !.mAllCreatures[i].dead =
                                       @ \/ idled.mAllCreatures[i].mfEnergy[1] <= 0,
                                    !.starved = IF idled.mAllCreatures[i].mfEnergy[1] <= 0
                                                  THEN @ \cup {i} ELSE @]
           walked == IF flagged.mAllCreatures[i].mCurPath # <<>>
                       THEN CreatureMove(flagged, i, dt) ELSE flagged
           spent == [walked EXCEPT !.starved = IF walked.mAllCreatures[i].mfEnergy[1] <= 0
                                                 THEN @ \cup {i} ELSE @]
           at == spent.mAllCreatures[i].pos
           eats == /\ b.do = "eat"
                   /\ \/ spent.mAllCreatures[i].kind = "Fox"
                      \/ 10 * spent.mGrassLayer[at] > spent.mGrassThresh[at][2]
           out == IF eats THEN CreatureEat(spent, i, b.rep)
                  ELSE IF b.do = "move"
                    THEN [spent EXCEPT !.mAllCreatures[i].mCurPath = b.path,
                                       !.mAllCreatures[i].mfAccPathDt = 0]
                  ELSE spent
       IN IF ~flagged.mAllCreatures[i].dead THEN out
          ELSE [out EXCEPT !.lastAwake =
                  [died |-> TRUE, i |-> i,
                   energy |-> flagged.mAllCreatures[i].mfEnergy[1],
                   after |-> out.mAllCreatures[i].mfEnergy[1],
                   acted |-> (IF walked.mAllCreatures[i].pos # flagged.mAllCreatures[i].pos
                                THEN {"move"} ELSE {})
                             \cup (IF eats THEN {"eat"} ELSE {})
                             \cup (IF Len(out.mAllCreatures) > Len(s.mAllCreatures)
                                     THEN {"replicate"} ELSE {})]]

\* EcoSystem::CleanUpDead from index i down: a dead creature leaves its cell
\* when the layer names it, its maximum energy times mfDeathThresh goes to
\* the map, and the last creature takes its place in the registry.
RECURSIVE CleanUpDeadFrom(_, _)
CleanUpDeadFrom(s, i) ==
  IF i < 1 THEN s
  ELSE LET c == s.mAllCreatures[i]
           n == Len(s.mAllCreatures)
           swapped == [s.mAllCreatures EXCEPT ![i] = s.mAllCreatures[n], ![n] = c]
       IN IF ~c.dead THEN CleanUpDeadFrom(s, i - 1)
          ELSE CleanUpDeadFrom(
                 [s EXCEPT !.mSpaceLayer[c.pos] = IF @ = i - 1 THEN -1 ELSE @,
                           !.mFertilizerLayer[c.pos] = @ + (c.mfEnergy[2] * s.mfDeathThresh) \div Unit,
                           !.mAllCreatures = SubSeq(swapped, 1, n - 1)], i - 1)

\* EcoSystem::UpdateMap: the layer cleared, then every creature's index
\* written at its cell, later creatures over earlier ones.
SerialUpdateMap(s) ==
  [s EXCEPT !.mSpaceLayer =
     [c \in Cells |->
        LET here == {j \in DOMAIN s.mAllCreatures : s.mAllCreatures[j].pos = c}
        IN IF here = {} THEN -1
           ELSE (CHOOSE j \in here : \A k \in here : k <= j) - 1]]

\* EcoSystem::Update up to UpdateCreatures.
SerialUpdateBegin(dt) ==
  /\ eco.pc = "idle"
  /\ eco.ticks < MaxSerialTicks
  /\ eco' = [eco EXCEPT !.pc = "creatures", !.i = 1, !.mfDelta = dt,
                        !.starved = {}, !.eaten = {}, !.spawned = <<>>,
                        !.lastAwake = NoDeath]
  /\ UNCHANGED <<rwl, terr, terrLog>>

\* One turn of the loop of UpdateCreatures.
SerialUpdateCreature ==
  /\ eco.pc = "creatures"
  /\ eco.i <= Len(eco.mAllCreatures)
  /\ IF eco.mAllCreatures[eco.i].dead
       THEN eco' = [eco EXCEPT !.i = @ + 1]
       ELSE \E b \in Behaviours(eco.mAllCreatures[eco.i]) :
              eco' = [CreatureUpdateAwake(eco, eco.i, eco.mfDelta, b) EXCEPT !.i = @ + 1]
  /\ UNCHANGED <<rwl, terr, terrLog>>

\* CleanUpDead and UpdateMap, after the loop.
SerialCleanUp ==
  /\ eco.pc = "creatures"
  /\ eco.i > Len(eco.mAllCreatures)
  /\ eco' = [SerialUpdateMap(CleanUpDeadFrom(eco, Len(eco.mAllCreatures)))
               EXCEPT !.pc = "tools",
                      !.flaggedAtCleanUp = {j \in DOMAIN eco.mAllCreatures :
                                              eco.mAllCreatures[j].dead}]
  /\ UNCHANGED <<rwl, terr, terrLog>>

\* SpawnTool::Render: no button pressed, Spawn pressed for a cell the layer
\* shows empty, or Batch Spawn of two creatures, each at a cell the layer
\* shows empty.
SerialSpawnTool(kind, size, cells) ==
  /\ eco.pc = "tools"
  /\ Len(eco.mAllCreatures) + Len(cells) <= MaxSerialCreatures
  /\ \A k \in DOMAIN cells : eco.mSpaceLayer[cells[k]] = -1
  /\ eco' = [(IF Len(cells) = 0 THEN eco
              ELSE IF Len(cells) = 1 THEN SpawnCreature(eco, kind, size, cells[1])
              ELSE SpawnCreature(SpawnCreature(eco, kind, size, cells[1]),
                                 kind, size, cells[2]))
               EXCEPT !.pc = "idle", !.ticks = @ + 1]
  /\ UNCHANGED <<rwl, terr, terrLog>>

SerialSizes == {Unit, Unit + Unit \div 2}
SerialEnergies == {<<Unit \div 40, 4 * Unit>>, <<Unit \div 2, 4 * Unit>>, <<4 * Unit, 4 * Unit>>}
SerialKinds == {"Rabbit", "Fox"}

\* Registries of two creatures on different cells, the map as UpdateMap left
\* it, grass on every cell or none.
SerialInit ==
  /\ eco \in
       { SerialUpdateMap(
           [mAllCreatures |-> <<SerialCreature(k1, z1, e1, p1), SerialCreature(k2, z2, e2, p2)>>,
            mSpaceLayer |-> [c \in Cells |-> -1],
            mGrassLayer |-> [c \in Cells |-> g],
            mGrassThresh |-> [c \in Cells |-> <<0, 2 * Unit>>],
            mFertilizerLayer |-> [c \in Cells |-> 0],
            mfDeathThresh |-> Unit \div 4, mfDelta |-> 0,
            pc |-> "idle", i |-> 0, ticks |-> 0,
            lastEat |-> [predator |-> 0, occupant |-> 0, predatorKind |-> "none",
                         predatorSize |-> 0, occupantKind |-> "none", occupantSize |-> 0,
                         occupantEnergy |-> 0, outcome |-> "none", ret |-> 0],
            starved |-> {}, eaten |-> {}, flaggedAtCleanUp |-> {}, spawned |-> <<>>,
            lastAwake |-> NoDeath]) :
         k1 \in SerialKinds, k2 \in SerialKinds, z1 \in SerialSizes, z2 \in SerialSizes,
         e1 \in SerialEnergies, e2 \in SerialEnergies,
         p1 \in {<<0, 0>>}, p2 \in {<<1, 0>>}, g \in {0, 2 * Unit} }
  /\ rwl = <<>>
  /\ terr = <<>>
  /\ terrLog = <<>>

SerialNext ==
  \/ \E dt \in {2 * Unit} : SerialUpdateBegin(dt)
  \/ SerialUpdateCreature
  \/ SerialCleanUp
  \/ \E kind \in SerialKinds, size \in {Unit},
        cells \in {<<>>} \cup {<<c>> : c \in Cells} \cup {<<c, d>> : c \in Cells, d \in Cells} :
       SerialSpawnTool(kind, size, cells)

SpecSerial == SerialInit /\ [][SerialNext]_vars

\* C25: EcoSystem::Eat called for a cell whose registered occupant is another
\* agent consumes the occupant, returning its energy, exactly when the
\* occupant's size is below 1.2 times the predator's, whatever the two
\* species; otherwise it consumes grass.
C25_SizeRuleDecidesPredation ==
  (eco.lastEat.occupant # 0 /\ eco.lastEat.occupant # eco.lastEat.predator) =>
    IF 10 * eco.lastEat.occupantSize < 12 * eco.lastEat.predatorSize
      THEN eco.lastEat.outcome = "eaten" /\ eco.lastEat.ret = eco.lastEat.occupantEnergy
      ELSE eco.lastEat.outcome = "grass"

\* C27: no creature is spawned, by the spawn tool or by Replicate, at a cell
\* where an agent of the registry already is.
C27_NoSpawnOntoOccupiedCell ==
  \A k \in DOMAIN eco.spawned : eco.spawned[k].onto = {}

\* C28: when a tick's CleanUpDead has run, every agent whose energy reached
\* zero in the tick and every agent eaten in the tick was flagged dead, and
\* no dead agent is left in the registry.
C28_DeadWithinTheTick ==
  eco.pc = "tools" =>
    /\ eco.starved \subseteq eco.flaggedAtCleanUp
    /\ eco.eaten \subseteq eco.flaggedAtCleanUp
    /\ \A j \in DOMAIN eco.mAllCreatures : ~eco.mAllCreatures[j].dead


\* C39: when the creatures of a tick have been updated, the dead removed and
\* the map rebuilt, no two live creatures of the registry stand on one cell.
C39_NoTwoLiveAgentsOnACell ==
  eco.pc = "tools" =>
    \A j, k \in DOMAIN eco.mAllCreatures :
      (j # k /\ ~eco.mAllCreatures[j].dead /\ ~eco.mAllCreatures[k].dead)
        => eco.mAllCreatures[j].pos # eco.mAllCreatures[k].pos

\* C38: a creature flagged dead stays flagged, and from then on it does not
\* move, eat or replicate and its energy does not rise, the rest of the
\* UpdateAwake call that flagged it included.
C38_DeadIsAbsorbingAndInert ==
  [][/\ (eco.pc = "creatures" /\ eco'.pc = "creatures") =>
          \A j \in DOMAIN eco.mAllCreatures :
            eco.mAllCreatures[j].dead =>
              /\ eco'.mAllCreatures[j].dead
              /\ eco'.mAllCreatures[j].pos = eco.mAllCreatures[j].pos
              /\ eco'.mAllCreatures[j].mfEnergy[1] <= eco.mAllCreatures[j].mfEnergy[1]
    /\ eco'.lastAwake.died =>
         /\ eco'.lastAwake.acted = {}
         /\ eco'.lastAwake.after <= eco'.lastAwake.energy]_vars

\* ---------------------------------------------------------------------------
\* The cell-block mutexes of ParallelEcoSystem: grid_mutexes_ is sized once by
\* InitializeParallel, which main calls on the freshly constructed 64x64
\* object; the setup window then sets the width and height, and
\* ConsumeGrassThreadSafe looks a mutex up for a cell of the grid.  terr is
\* the object and the lookups made.
\* ---------------------------------------------------------------------------
CtorDim == 64
MaxLookups == 2

\* Widths and heights the setup sliders are set to, and the coordinates looked
\* up.
SetupDims == {10, 13, CtorDim, 200}
LookupCoords == {0, 3, 4, 9, 12, 63, 64, 199}

\* grid_mutex_count of InitializeParallel.
GridMutexCount(w, h) == (w * h) \div 16

\* ParallelEcoSystem::GetGridMutexIndex(x, y) on a grid of width w.
GetGridMutexIndex(w, x, y) == (y \div 4) * ((w + 3) \div 4) + (x \div 4)

\* RenderSetup: the Width or the Height slider moved.
RenderSetupDim(w, h) ==
  /\ ~terr.mbRunEco
  /\ terr' = [terr EXCEPT !.mnWidth = w, !.mnHeight = h]
  /\ UNCHANGED <<rwl, terrLog, eco>>

\* RenderSetup: Begin pressed.
RenderSetupBegin ==
  /\ ~terr.mbRunEco
  /\ terr' = [terr EXCEPT !.mbRunEco = TRUE]
  /\ UNCHANGED <<rwl, terrLog, eco>>

\* ConsumeGrassThreadSafe(x, y, amount) up to the look-up of its mutex.
GridMutexLookup(x, y) ==
  /\ terr.mbRunEco
  /\ Len(terr.lookups) < MaxLookups
  /\ ~(x >= terr.mnWidth \/ y >= terr.mnHeight)
  /\ terr' = [terr EXCEPT !.lookups =
                Append(@, [x |-> x, y |-> y,
                           mutex_index |-> GetGridMutexIndex(terr.mnWidth, x, y)])]
  /\ UNCHANGED <<rwl, terrLog, eco>>

GridMutexInit ==
  /\ terr = [mnWidth |-> CtorDim, mnHeight |-> CtorDim,
             grid_mutex_count |-> GridMutexCount(CtorDim, CtorDim),
             mbRunEco |-> FALSE, lookups |-> <<>>]
  /\ rwl = <<>>
  /\ terrLog = <<>>
  /\ eco = <<>>

GridMutexNext ==
  \/ \E w \in SetupDims, h \in SetupDims : RenderSetupDim(w, h)
  \/ RenderSetupBegin
  \/ \E x \in LookupCoords, y \in LookupCoords : GridMutexLookup(x, y)

SpecGridMutex == GridMutexInit /\ [][GridMutexNext]_vars

\* C36: every mutex index looked up for a cell of the grid is below the
\* number of mutexes created, and two cells that get the same index lie in
\* the same 4x4 block.
C36_GridMutexIndexInRange ==
  /\ \A k \in DOMAIN terr.lookups : terr.lookups[k].mutex_index < terr.grid_mutex_count
  /\ \A j, k \in DOMAIN terr.lookups :
       terr.lookups[j].mutex_index = terr.lookups[k].mutex_index
         => /\ terr.lookups[j].x \div 4 = terr.lookups[k].x \div 4
            /\ terr.lookups[j].y \div 4 = terr.lookups[k].y \div 4

\* ---------------------------------------------------------------------------
\* Grass access of the creature tasks: GetGrassValueThreadSafe and
\* ConsumeGrassThreadSafe called by pool threads, one step per lock
\* operation and per access to grass_layer[y][x].  terr holds terrain_lock_,
\* the cell-block mutexes, the grass layer and each thread's position.
\* ---------------------------------------------------------------------------
MaxGrassThreads == 2

GrassThreads == 1 .. MaxGrassThreads

\* The cells the threads ask for: the first two share a cell-block mutex.
GrassLockCells == {<<0, 0>>, <<1, 0>>, <<4, 0>>}

\* The amount Rabbit behaviour consumes (0.5f).
GrassLockAmounts == {One \div 2}

IdleThread == [pc |-> "idle", cell |-> NoCell, amount |-> 0, available |-> 0, ret |-> 0]

\* The locks a thread holds at its position.
LocksHeld(th) ==
  CASE th.pc \in {"read", "read_done"} -> {<<"terrain_lock_", 0>>}
    [] th.pc \in {"consume", "consume_write", "consume_done"} ->
         {<<"grid_mutexes_", GetGridMutexIndex(CtorDim, th.cell[1], th.cell[2])>>}
    [] OTHER -> {}

\* GetGrassValueThreadSafe(x, y): ReadGuard terrain_guard(terrain_lock_).
GrassReadGuard(t, c) ==
  /\ terr.th[t].pc = "idle"
  /\ ReadPred(terr.terrain_lock_)
  /\ terr' = [terr EXCEPT !.terrain_lock_.readers_ = @ + 1,
                          !.th[t] = [IdleThread EXCEPT !.pc = "read", !.cell = c]]
  /\ UNCHANGED <<rwl, terrLog, eco>>

\* GetGrassValueThreadSafe: the read of mTerrain.GetGrassLayer()[y][x].
GrassRead(t) ==
  /\ terr.th[t].pc = "read"
  /\ terr' = [terr EXCEPT !.th[t].ret = terr.mGrassLayer[terr.th[t].cell],
                          !.th[t].pc = "read_done"]
  /\ UNCHANGED <<rwl, terrLog, eco>>

\* GetGrassValueThreadSafe: the guard's destructor, and the return.
GrassReadReturn(t) ==
  /\ terr.th[t].pc = "read_done"
  /\ terr' = [terr EXCEPT !.terrain_lock_.readers_ = @ - 1,
                          !.th[t] = [IdleThread EXCEPT !.ret = terr.th[t].ret]]
  /\ UNCHANGED <<rwl, terrLog, eco>>

\* ConsumeGrassThreadSafe(x, y, amount): lock_guard on the cell's block mutex.
GrassGridGuard(t, c, amount) ==
  LET mutex_index == GetGridMutexIndex(CtorDim, c[1], c[2])
  IN /\ terr.th[t].pc = "idle"
     /\ ~(amount <= 0)
     /\ \A u \in GrassThreads :
          <<"grid_mutexes_", mutex_index>> \notin LocksHeld(terr.th[u])
     /\ terr' = [terr EXCEPT !.th[t] = [IdleThread EXCEPT !.pc = "consume", !.cell = c,
                                                           !.amount = amount]]
     /\ UNCHANGED <<rwl, terrLog, eco>>

\* ConsumeGrassThreadSafe: available = grass_layer[y][x].
GrassConsumeRead(t) ==
  /\ terr.th[t].pc = "consume"
  /\ terr' = [terr EXCEPT !.th[t].available = terr.mGrassLayer[terr.th[t].cell],
                          !.th[t].pc = "consume_write"]
  /\ UNCHANGED <<rwl, terrLog, eco>>

\* ConsumeGrassThreadSafe: grass_layer[y][x] -= consumed.
GrassConsumeWrite(t) ==
  LET consumed == Min(terr.th[t].amount, terr.th[t].available)
  IN /\ terr.th[t].pc = "consume_write"
     /\ terr' = [terr EXCEPT !.mGrassLayer[terr.th[t].cell] = @ - consumed,
                             !.th[t].ret = consumed,
                             !.th[t].pc = "consume_done"]
     /\ UNCHANGED <<rwl, terrLog, eco>>

\* ConsumeGrassThreadSafe: the guard's destructor, and the return.
GrassConsumeReturn(t) ==
  /\ terr.th[t].pc = "consume_done"
  /\ terr' = [terr EXCEPT !.th[t] = [IdleThread EXCEPT !.ret = terr.th[t].ret]]
  /\ UNCHANGED <<rwl, terrLog, eco>>

GrassLockInit ==
  /\ terr \in { [terrain_lock_ |-> [readers_ |-> 0, writers_ |-> 0, write_requests_ |-> 0],
                 mGrassLayer |-> g,
                 th |-> [t \in GrassThreads |-> IdleThread]] :
                g \in [GrassLockCells -> {One \div 4, One}] }
  /\ rwl = <<>>
  /\ terrLog = <<>>
  /\ eco = <<>>

GrassLockNext ==
  \/ \E t \in GrassThreads, c \in GrassLockCells : GrassReadGuard(t, c)
  \/ \E t \in GrassThreads : GrassRead(t)
  \/ \E t \in GrassThreads : GrassReadReturn(t)
  \/ \E t \in GrassThreads, c \in GrassLockCells, amount \in GrassLockAmounts :
       GrassGridGuard(t, c, amount)
  \/ \E t \in GrassThreads : GrassConsumeRead(t)
  \/ \E t \in GrassThreads : GrassConsumeWrite(t)
  \/ \E t \in GrassThreads : GrassConsumeReturn(t)

SpecGrassLock == GrassLockInit /\ [][GrassLockNext]_vars

\* C35: when one thread is at its read of a grass cell in
\* GetGrassValueThreadSafe and another is at its write of the same cell in
\* ConsumeGrassThreadSafe, the two hold a common lock, so that one of the two
\* accesses waits for the other.
C35_GrassReadAndWriteShareALock ==
  \A t, u \in GrassThreads :
    (/\ terr.th[t].pc = "read"
     /\ terr.th[u].pc = "consume_write"
     /\ terr.th[t].cell = terr.th[u].cell)
      => LocksHeld(terr.th[t]) \cap LocksHeld(terr.th[u]) # {}

\* ---------------------------------------------------------------------------
\* SenseNearbyCreatures as a function of the registry and the partition lists
\* of the tick, on a grid three partitions wide.  eco holds the registry, the
\* lists UpdateSpatialPartitions built from it and the last call.
\* ---------------------------------------------------------------------------
SenseWidth == 5
SensePartitionSize == 2
MaxSenseCreatures == 2
MaxSenseRange == 3

SenseSP == SpatialPartition(SenseWidth, 1, SensePartitionSize)

SenseCells == GridCells(SenseWidth, 1)

SenseRanges == 1..MaxSenseRange

\* The type filters of the callers: none, {"Fox"}, {"Rabbit"}.
SenseTypes == {{}, {"Fox"}, {"Rabbit"}}

\* SpatialPartition::AreNeighbors(partition1, partition2).
SP_AreNeighbors(sp, p1, p2) ==
  /\ Abs((p1 % sp.partitions_x_) - (p2 % sp.partitions_x_)) <= 1
  /\ Abs((p1 \div sp.partitions_x_) - (p2 \div sp.partitions_x_)) <= 1

\* UpdateSpatialPartitions on a registry r: every live creature, in registry
\* order, in the list of its partition.
SP_UpdateSpatialPartitions(sp, r) ==
  [p \in 0..(sp.partition_count_ - 1) |->
     SelectSeq([i \in 1..Len(r) |-> i],
               LAMBDA i : /\ ~r[i].dead
                          /\ SP_GetPartitionId(sp, r[i].pos[1], r[i].pos[2]) = p)]

\* Utils::Math::DistanceSquared of the difference of two grid positions.
DistanceSquared(a, b) ==
  (a[1] - b[1]) * (a[1] - b[1]) + (a[2] - b[2]) * (a[2] - b[2])

\* SenseNearbyCreatures: the partitions from id on, in order; the caller's
\* partition and its neighbours are scanned, and of their lists the creatures
\* that are not the caller, not dead, of a wanted type and in range are
\* appended.
RECURSIVE SenseFrom(_, _, _, _, _, _, _)
SenseFrom(sp, r, lists, i, sense_range, types, partition_id) ==
  LET own == SP_GetPartitionId(sp, r[i].pos[1], r[i].pos[2])
      found == SelectSeq(lists[partition_id],
                 LAMBDA j : /\ ~(j = i \/ r[j].dead)
                            /\ ~(types # {} /\ r[j].mName \notin types)
                            /\ DistanceSquared(r[i].pos, r[j].pos)
                                 <= sense_range * sense_range)
  IN IF partition_id >= sp.partition_count_ THEN <<>>
     ELSE IF ~SP_AreNeighbors(sp, own, partition_id) /\ partition_id # own
       THEN SenseFrom(sp, r, lists, i, sense_range, types, partition_id + 1)
       ELSE found \o SenseFrom(sp, r, lists, i, sense_range, types, partition_id + 1)

\* The registries a tick starts from: Rabbits and Foxes, some flagged dead.
SenseRegistries ==
  UNION {[1..n -> [mName : {"Rabbit", "Fox"}, pos : SenseCells, dead : BOOLEAN]] :
           n \in 1..MaxSenseCreatures}

NoSense == [made |-> FALSE, creature |-> 0, sense_range |-> 0, types |-> {},
            ret |-> <<>>, before |-> <<>>]

\* AttemptPredationThreadSafe's prey->Eaten() during the creature phase: the
\* flag is set, the lists stay as they were built.
SenseEaten(j) ==
  /\ j \in DOMAIN eco.mAllCreatures
  /\ ~eco.mAllCreatures[j].dead
  /\ eco' = [eco EXCEPT !.mAllCreatures[j].dead = TRUE, !.call = NoSense]
  /\ UNCHANGED <<rwl, terr, terrLog>>

\* SenseNearbyCreatures(creature, sense_range, creature_types) by a live
\* creature of the registry.
SenseNearbyCreatures(i, sense_range, types) ==
  /\ i \in DOMAIN eco.mAllCreatures
  /\ ~eco.mAllCreatures[i].dead
  /\ eco' = [eco EXCEPT !.call =
               [made |-> TRUE, creature |-> i, sense_range |-> sense_range,
                types |-> types,
                ret |-> SenseFrom(SenseSP, eco.mAllCreatures, eco.partition_creatures_,
                                  i, sense_range, types, 0),
                before |-> eco.mAllCreatures]]
  /\ UNCHANGED <<rwl, terr, terrLog>>

SenseInit ==
  /\ \E r \in SenseRegistries :
       eco = [mAllCreatures |-> r,
              partition_creatures_ |-> SP_UpdateSpatialPartitions(SenseSP, r),
              call |-> NoSense]
  /\ rwl = <<>>
  /\ terr = <<>>
  /\ terrLog = <<>>

SenseNext ==
  \/ \E j \in 1..MaxSenseCreatures : SenseEaten(j)
  \/ \E i \in 1..MaxSenseCreatures, sense_range \in SenseRanges, types \in SenseTypes :
       SenseNearbyCreatures(i, sense_range, types)

SpecSense == SenseInit /\ [][SenseNext]_vars

\* The live creatures other than i within sense_range of i whose name passes
\* the filter.
InSenseRange(r, i, sense_range, types) ==
  {j \in DOMAIN r :
     /\ j # i /\ ~r[j].dead
     /\ (types = {} \/ r[j].mName \in types)
     /\ DistanceSquared(r[i].pos, r[j].pos) <= sense_range * sense_range}

\* C34: SenseNearbyCreatures returns exactly the live creatures other than the
\* caller that are within sense_range and pass the type filter, none of them
\* twice, and leaves the registry as it was.
C34_SenseReturnsExactlyTheNearby ==
  eco.call.made =>
    /\ {eco.call.ret[k] : k \in DOMAIN eco.call.ret}
         = InSenseRange(eco.mAllCreatures, eco.call.creature,
                        eco.call.sense_range, eco.call.types)
    /\ \A k, l \in DOMAIN eco.call.ret : k # l => eco.call.ret[k] # eco.call.ret[l]
    /\ eco.mAllCreatures = eco.call.before

\* ---------------------------------------------------------------------------
\* The removal of the dead on its own: ParallelCleanupDead, its scan split
\* into chunks that finish in any order, and EcoSystem::CleanUpDead, each on
\* its own copy of one registry.  eco.par and eco.ser are the two objects,
\* eco.before the registry both started from.
\* ---------------------------------------------------------------------------
MaxCleanupCreatures == 4
MaxCleanupWorkers == 3

\* Registries of creatures told apart by their maximum energy, any of them
\* flagged dead.
CleanupRegistries ==
  UNION {{[i \in 1..n |->
             [NewCreature("Rabbit", <<i % GridW, 0>>, <<0, i * One>>, <<0, 0>>)
                EXCEPT !.dead = d[i]]] : d \in [1..n -> BOOLEAN]} :
         n \in 0..MaxCleanupCreatures}

\* The parallel object with registry r and nw pool threads, as far as the
\* removal reads it.
CleanupPar(nw, r) ==
  [nw |-> nw, mAllCreatures |-> r, mfDeathThresh |-> One \div 4,
   mTerrain |-> [mFertilizerLayer |-> [c \in Cells |-> 0]],
   mSpaceLayer |-> [c \in Cells |-> -1],
   terrain_lock_ |-> NewRWLock(0..nw),
   dead_indices |-> <<>>, deposits |-> <<>>, lastWrite |-> NoWrite]

\* The single-threaded object with registry r after UpdateMap.
CleanupSer(r) ==
  SerialUpdateMap([mAllCreatures |-> r, mfDeathThresh |-> Unit \div 4,
                   mFertilizerLayer |-> [c \in Cells |-> 0],
                   mSpaceLayer |-> [c \in Cells |-> -1]])

\* ParallelCleanupDead: the scan task of chunk k appends the dead indices of
\* its chunk to dead_indices.
CleanupScanTask(k) ==
  LET s == eco.par
      first == k * ChunkSize(s) + 1
      last == Min(first + ChunkSize(s) - 1, Len(s.mAllCreatures))
      local_dead == SelectSeq([n \in 1..(last - first + 1) |-> first + n - 1],
                              LAMBDA x : s.mAllCreatures[x].dead)
  IN /\ eco.parPc = "scan"
     /\ k < ChunkCount(s) /\ k \notin eco.scanned
     /\ eco' = [eco EXCEPT !.par.dead_indices = @ \o local_dead,
                           !.scanned = @ \cup {k}]
     /\ UNCHANGED <<rwl, terr, terrLog>>

\* ParallelCleanupDead after the last future.wait(): the sort and the removal
\* loop.
CleanupSortAndRemove ==
  LET s == eco.par
      idxs == {s.dead_indices[n] : n \in DOMAIN s.dead_indices}
  IN /\ eco.parPc = "scan"
     /\ \A k \in 0..(ChunkCount(s) - 1) : k \in eco.scanned
     /\ eco' = [eco EXCEPT !.par = RemoveDead(s, SortDescending(idxs)),
                           !.parPc = "done"]
     /\ UNCHANGED <<rwl, terr, terrLog>>

\* EcoSystem::CleanUpDead.
CleanUpDead ==
  /\ eco.serPc = "idle"
  /\ eco' = [eco EXCEPT !.ser = CleanUpDeadFrom(@, Len(@.mAllCreatures)),
                        !.serPc = "done"]
  /\ UNCHANGED <<rwl, terr, terrLog>>

CleanupInit ==
  /\ \E nw \in 1..MaxCleanupWorkers, r \in CleanupRegistries :
       eco = [par |-> CleanupPar(nw, r), ser |-> CleanupSer(r), before |-> r,
              scanned |-> {}, parPc |-> "scan", serPc |-> "idle"]
  /\ rwl = <<>>
  /\ terr = <<>>
  /\ terrLog = <<>>

CleanupNext ==
  \/ \E k \in 0..(MaxCleanupCreatures - 1) : CleanupScanTask(k)
  \/ CleanupSortAndRemove
  \/ CleanUpDead

SpecCleanup == CleanupInit /\ [][CleanupNext]_vars

\* The registry after is the registry before without its dead: every creature
\* that was alive is there exactly once, and nothing else.
ExactlyTheLive(before, after) ==
  /\ \A i \in DOMAIN before :
       Cardinality({j \in DOMAIN after : after[j].maxAlive = before[i].maxAlive})
         = IF before[i].dead THEN 0 ELSE 1
  /\ \A j \in DOMAIN after :
       /\ ~after[j].dead
       /\ \E i \in DOMAIN before : before[i] = after[j]

\* C32: after ParallelCleanupDead, whatever the order in which the scan tasks
\* finished, and after CleanUpDead, the registry holds every creature that was
\* alive before the call exactly once and no creature flagged dead.
C32_RemovesExactlyTheDead ==
  /\ eco.parPc = "done" => ExactlyTheLive(eco.before, eco.par.mAllCreatures)
  /\ eco.serPc = "done" => ExactlyTheLive(eco.before, eco.ser.mAllCreatures)

\* Both removals have run on a full registry whose first and last creatures
\* were dead with a live one between them, the scan tasks having finished out
\* of order.
C32_Witness ==
  /\ eco.parPc = "done" /\ eco.serPc = "done"
  /\ Len(eco.before) = MaxCleanupCreatures
  /\ eco.before[1].dead /\ eco.before[MaxCleanupCreatures].dead
  /\ ~eco.before[2].dead
  /\ Len(eco.par.dead_indices) > 1
  /\ eco.par.dead_indices[1] > eco.par.dead_indices[2]

\* ---------------------------------------------------------------------------
\* AttemptPredationThreadSafe called by two threads at once, neither holding
\* a partition mutex, one step per lock operation and per access to a
\* creature.  eco holds the registry, the partition mutexes (0 when free,
\* else the owner) and each thread's position in the call.
\* ---------------------------------------------------------------------------
MaxPredationThreads == 2

PredationThreads == 1 .. MaxPredationThreads

\* A call that locks the predator's partition alone.
PredationLocksPredatorOnly(pred_partition, prey_partition) == <<pred_partition>>

\* The partitions AttemptPredationThreadSafe locks, in the order it locks
\* them.
PredationLocks(pred_partition, prey_partition) ==
  IF pred_partition = prey_partition THEN <<pred_partition>>
  ELSE <<Min(pred_partition, prey_partition), Max(pred_partition, prey_partition)>>

NoCall == [pc |-> "idle", predator |-> 0, prey |-> 0, locks |-> <<>>, held |-> 0,
           e |-> 0, ret |-> 0, verified |-> FALSE]

\* The call returns r: its unique_locks are released.
PredationReturn(s, t, r) ==
  [s EXCEPT !.partition_mutexes_ = [p \in Partitions |-> IF @[p] = t THEN 0 ELSE @[p]],
            !.th[t].pc = "returned", !.th[t].ret = r,
            !.nonzero[s.th[t].prey] = IF r > 0 THEN @ + 1 ELSE @]

\* The call up to the locks: the unlocked test of the two flags, the positions
\* and the partitions.
PredationCall(t, a, b) ==
  LET reg == eco.mAllCreatures
      call == [NoCall EXCEPT !.predator = a, !.prey = b]
  IN /\ eco.th[t].pc \in {"idle", "returned"}
     /\ a # b
     /\ eco' = IF reg[a].dead \/ reg[b].dead
                 THEN PredationReturn([eco EXCEPT !.th[t] = call], t, 0)
                 ELSE [eco EXCEPT !.th[t] =
                         [call EXCEPT !.pc = "lock",
                                      !.locks = PredationLocks(GetPartitionId(reg[a].pos),
                                                               GetPartitionId(reg[b].pos))]]
     /\ UNCHANGED <<rwl, terr, terrLog>>

\* locks.emplace_back(*partition_mutexes_[...]): the next mutex is taken when
\* free.
PredationLock(t) ==
  LET th == eco.th[t]
      next == th.locks[th.held + 1]
  IN /\ th.pc = "lock"
     /\ eco.partition_mutexes_[next] = 0
     /\ eco' = [eco EXCEPT !.partition_mutexes_[next] = t,
                           !.th[t].held = @ + 1,
                           !.th[t].pc = IF th.held + 1 = Len(th.locks) THEN "verify"
                                        ELSE "lock"]
     /\ UNCHANGED <<rwl, terr, terrLog>>

\* The tests under the locks: both still alive, and adjacent.
PredationVerify(t) ==
  LET th == eco.th[t]
      reg == eco.mAllCreatures
  IN /\ th.pc = "verify"
     /\ eco' = IF reg[th.predator].dead \/ reg[th.prey].dead
                 THEN PredationReturn([eco EXCEPT !.th[t].verified = TRUE], t, 0)
                 ELSE IF DistanceSquared(reg[th.predator].pos, reg[th.prey].pos) > 2
                   THEN PredationReturn(eco, t, 0)
                   ELSE [eco EXCEPT !.th[t].pc = "eaten"]
     /\ UNCHANGED <<rwl, terr, terrLog>>

\* prey->Eaten: mBitFlags |= FLAG_DEAD; e = mfEnergy.first.
PredationEatenFlag(t) ==
  LET th == eco.th[t]
  IN /\ th.pc = "eaten"
     /\ eco' = [eco EXCEPT !.mAllCreatures[th.prey].dead = TRUE,
                           !.th[t].e = eco.mAllCreatures[th.prey].mfEnergy[1],
                           !.th[t].pc = "zero"]
     /\ UNCHANGED <<rwl, terr, terrLog>>

\* prey->Eaten: mfEnergy.first = 0; mfEnergy.second = 0.
PredationEatenZero(t) ==
  LET th == eco.th[t]
  IN /\ th.pc = "zero"
     /\ eco' = [eco EXCEPT !.mAllCreatures[th.prey].mfEnergy = <<0, 0>>,
                           !.th[t].pc = "gain"]
     /\ UNCHANGED <<rwl, terr, terrLog>>

\* predator->ConsumeEnergy(-energy_gained) and the return.
PredationGain(t) ==
  LET th == eco.th[t]
      c == eco.mAllCreatures[th.predator]
      gained == [eco EXCEPT !.mAllCreatures[th.predator].mfEnergy[1] =
                              Clamp(0, c.mfEnergy[2], c.mfEnergy[1] + th.e)]
  IN /\ th.pc = "gain"
     /\ eco' = PredationReturn(gained, t, th.e)
     /\ UNCHANGED <<rwl, terr, terrLog>>

\* Two Foxes and a Rabbit anywhere on the grid.
PredationInit ==
  /\ \E pa \in Cells, pb \in Cells, pp \in Cells :
       eco = [mAllCreatures |-> <<NewCreature("Fox", pa, <<One, 4 * One>>, pa),
                                  NewCreature("Fox", pb, <<One, 4 * One>>, pb),
                                  NewCreature("Rabbit", pp, <<2 * One, 2 * One>>, pp)>>,
              partition_mutexes_ |-> [p \in Partitions |-> 0],
              th |-> [t \in PredationThreads |-> NoCall],
              nonzero |-> <<0, 0, 0>>]
  /\ rwl = <<>>
  /\ terr = <<>>
  /\ terrLog = <<>>

PredationNext ==
  \/ \E t \in PredationThreads, a \in 1..3, b \in 1..3 : PredationCall(t, a, b)
  \/ \E t \in PredationThreads : PredationLock(t)
  \/ \E t \in PredationThreads : PredationVerify(t)
  \/ \E t \in PredationThreads : PredationEatenFlag(t)
  \/ \E t \in PredationThreads : PredationEatenZero(t)
  \/ \E t \in PredationThreads : PredationGain(t)

SpecPredation == PredationInit /\ [][PredationNext]_vars

\* Thread t waits for a mutex that thread u owns.
WaitsFor(t, u) ==
  /\ eco.th[t].pc = "lock"
  /\ eco.partition_mutexes_[eco.th[t].locks[eco.th[t].held + 1]] = u

\* C31: of the calls of AttemptPredationThreadSafe on one prey at most one
\* returns a non-zero energy, a prey's energy is handed over at most once, and
\* no two calls wait for each other's mutexes (nor a call for its own).
C31_PreyEatenAtMostOnce ==
  /\ \A b \in DOMAIN eco.nonzero : eco.nonzero[b] <= 1
  /\ \A t, u \in PredationThreads :
       (eco.th[t].prey = eco.th[u].prey /\ t # u)
         => ~(eco.th[t].pc \in {"zero", "gain"} /\ eco.th[t].e > 0
              /\ eco.th[u].pc \in {"zero", "gain"} /\ eco.th[u].e > 0)
  /\ \A t, u \in PredationThreads : ~(WaitsFor(t, u) /\ WaitsFor(u, t))

\* Two calls on the same prey by different predators from different
\* partitions both passed the unlocked test; one has returned the prey's
\* energy, the other found the prey dead under the locks and returned 0.
C31_Witness ==
  \E t, u \in PredationThreads :
    /\ t # u
    /\ eco.th[t].prey = eco.th[u].prey /\ eco.th[t].predator # eco.th[u].predator
    /\ GetPartitionId(eco.mAllCreatures[eco.th[t].predator].pos)
         # GetPartitionId(eco.mAllCreatures[eco.th[u].predator].pos)
    /\ eco.th[t].pc = "returned" /\ eco.th[t].ret > 0
    /\ eco.th[u].pc = "returned" /\ eco.th[u].ret = 0 /\ eco.th[u].verified

\* ---------------------------------------------------------------------------
\* ThreadPool (Utils/Threading.h, Utils/Threading.cpp): the queue, the workers'
\* loop, Submit, WaitForAll and the destructor.  eco is the pool together with
\* the threads that use it.  Each block that holds queue_mutex_ is one step; a
\* condition variable is the set of threads asleep in it, and a thread leaves
\* that set when it is notified or wakes spuriously, then tests its predicate
\* again under the mutex.
\* ---------------------------------------------------------------------------
MaxPoolWorkers == 2
MaxPoolTasks == 3
PoolWorkers == 1..MaxPoolWorkers
PoolClients == 1..2
PoolTasks == 1..MaxPoolTasks

\* ThreadPool::ThreadPool(num_threads): stop_(false), active_tasks_(0), the
\* workers at the top of their loop.
NewThreadPool(num_threads) ==
  [num_threads |-> num_threads,
   tasks_ |-> <<>>, stop_ |-> FALSE, active_tasks_ |-> 0,
   worker |-> [w \in PoolWorkers |-> IF w <= num_threads THEN "top" ELSE "none"],
   task |-> [w \in PoolWorkers |-> 0],
   client |-> [c \in PoolClients |-> "idle"],
   submitted |-> 0, took |-> <<>>,
   executed |-> [t \in PoolTasks |-> 0], ready |-> {},
   thrown |-> 0, returned |-> 0, returnedAfterSleep |-> FALSE]

\* The predicate of condition_.wait in the worker loop.
WorkPred(s) == s.stop_ \/ s.tasks_ # <<>>

\* A predicate that looks at the queue alone.
AllDonePredQueueOnly(s) == s.tasks_ = <<>>

\* The predicate of all_done_.wait in WaitForAll.
AllDonePred(s) == s.tasks_ = <<>> /\ s.active_tasks_ = 0

\* A queue that hands out its newest element.
QueueBack(q) == <<q[Len(q)], SubSeq(q, 1, Len(q) - 1)>>

\* tasks_.front() and tasks_.pop(): what is taken and what is left.
QueueFront(q) == <<Head(q), Tail(q)>>

\* notify_all on all_done_: every thread asleep in WaitForAll wakes.
NotifyAllDone(s) ==
  [s EXCEPT !.client = [c \in PoolClients |-> IF @[c] = "waiting" THEN "woken" ELSE @[c]]]

\* The worker loop down to the end of its first locked block: wait for the
\* predicate, return when stopped with an empty queue, else take the front task.
WorkerWait(w) ==
  /\ eco.worker[w] \in {"top", "woken"}
  /\ eco' =
       IF ~WorkPred(eco) THEN [eco EXCEPT !.worker[w] = "asleep"]
       ELSE IF eco.stop_ /\ eco.tasks_ = <<>> THEN [eco EXCEPT !.worker[w] = "exited"]
       ELSE LET f == QueueFront(eco.tasks_)
            IN [eco EXCEPT !.tasks_ = f[2], !.active_tasks_ = @ + 1,
                           !.worker[w] = "running", !.task[w] = f[1],
                           !.took = Append(@, f[1])]
  /\ UNCHANGED <<rwl, terr, terrLog>>

\* task(): the packaged_task runs its function and makes its future ready.
WorkerRun(w) ==
  /\ eco.worker[w] = "running"
  /\ eco' = [eco EXCEPT !.executed[eco.task[w]] = @ + 1,
                        !.ready = @ \cup {eco.task[w]},
                        !.worker[w] = "finishing"]
  /\ UNCHANGED <<rwl, terr, terrLog>>

\* The worker's second locked block.
WorkerFinish(w) ==
  /\ eco.worker[w] = "finishing"
  /\ LET s == [eco EXCEPT !.active_tasks_ = @ - 1, !.worker[w] = "top", !.task[w] = 0]
     IN eco' = IF s.active_tasks_ = 0 /\ s.tasks_ = <<>> THEN NotifyAllDone(s) ELSE s
  /\ UNCHANGED <<rwl, terr, terrLog>>

\* A wait on a condition variable may return without a notification.
PoolSpuriousWorker(w) ==
  /\ eco.worker[w] = "asleep"
  /\ eco' = [eco EXCEPT !.worker[w] = "woken"]
  /\ UNCHANGED <<rwl, terr, terrLog>>

PoolSpuriousClient(c) ==
  /\ eco.client[c] = "waiting"
  /\ eco' = [eco EXCEPT !.client[c] = "woken"]
  /\ UNCHANGED <<rwl, terr, terrLog>>

\* Submit, its locked block: throw on a stopped pool, else emplace the task.
Submit(c) ==
  /\ eco.client[c] = "idle"
  /\ eco.client[1] # "gone"
  /\ eco.submitted + eco.thrown < MaxPoolTasks
  /\ eco' = IF eco.stop_ THEN [eco EXCEPT !.thrown = @ + 1]
            ELSE [eco EXCEPT !.submitted = @ + 1, !.tasks_ = Append(@, eco.submitted + 1),
                             !.client[c] = "notify"]
  /\ UNCHANGED <<rwl, terr, terrLog>>

\* Submit, after the lock is released: condition_.notify_one().
SubmitNotify(c) ==
  /\ eco.client[c] = "notify"
  /\ \/ /\ \A w \in PoolWorkers : eco.worker[w] # "asleep"
        /\ eco' = [eco EXCEPT !.client[c] = "idle"]
     \/ \E w \in PoolWorkers :
          /\ eco.worker[w] = "asleep"
          /\ eco' = [eco EXCEPT !.client[c] = "idle", !.worker[w] = "woken"]
  /\ UNCHANGED <<rwl, terr, terrLog>>

\* WaitForAll: lock, test the predicate, return or sleep in all_done_.
WaitForAll(c) ==
  /\ eco.client[c] \in {"idle", "woken"}
  /\ eco.client[1] # "gone"
  /\ eco.client[c] = "idle" => eco.returned < MaxPoolTasks
  /\ eco' = IF AllDonePred(eco)
              THEN [eco EXCEPT !.client[c] = "idle", !.returned = @ + 1,
                               !.returnedAfterSleep = @ \/ eco.client[c] = "woken"]
              ELSE [eco EXCEPT !.client[c] = "waiting"]
  /\ UNCHANGED <<rwl, terr, terrLog>>

\* ~ThreadPool, its locked block: stop_ = true.
DestructorStop ==
  /\ eco.client[1] = "idle"
  /\ ~eco.stop_
  /\ eco' = [eco EXCEPT !.stop_ = TRUE, !.client[1] = "stopping"]
  /\ UNCHANGED <<rwl, terr, terrLog>>

\* ~ThreadPool: condition_.notify_all().
DestructorNotify ==
  /\ eco.client[1] = "stopping"
  /\ eco' = [eco EXCEPT !.client[1] = "joining",
                        !.worker = [w \in PoolWorkers |-> IF @[w] = "asleep" THEN "woken" ELSE @[w]]]
  /\ UNCHANGED <<rwl, terr, terrLog>>

\* ~ThreadPool: worker.join() for every worker.
DestructorJoin ==
  /\ eco.client[1] = "joining"
  /\ \A w \in PoolWorkers : eco.worker[w] \in {"exited", "none"}
  /\ eco.client[2] = "idle"
  /\ eco' = [eco EXCEPT !.client[1] = "gone"]
  /\ UNCHANGED <<rwl, terr, terrLog>>

PoolInit ==
  /\ eco \in {NewThreadPool(n) : n \in PoolWorkers}
  /\ rwl = <<>>
  /\ terr = <<>>
  /\ terrLog = <<>>

PoolNext ==
  \/ \E w \in PoolWorkers : WorkerWait(w)
  \/ \E w \in PoolWorkers : WorkerRun(w)
  \/ \E w \in PoolWorkers : WorkerFinish(w)
  \/ \E w \in PoolWorkers : PoolSpuriousWorker(w)
  \/ \E c \in PoolClients : PoolSpuriousClient(c)
  \/ \E c \in PoolClients : Submit(c)
  \/ \E c \in PoolClients : SubmitNotify(c)
  \/ \E c \in PoolClients : WaitForAll(c)
  \/ DestructorStop
  \/ DestructorNotify
  \/ DestructorJoin

\* Every thread that can take a step inside the pool's code takes it; nothing
\* obliges a client to call Submit, WaitForAll or the destructor, and nothing
\* obliges a wait to wake spuriously.
PoolFairness ==
  /\ \A w \in PoolWorkers : WF_vars(WorkerWait(w)) /\ WF_vars(WorkerRun(w)) /\ WF_vars(WorkerFinish(w))
  /\ \A c \in PoolClients : WF_vars(SubmitNotify(c)) /\ WF_vars(eco.client[c] = "woken" /\ WaitForAll(c))
  /\ WF_vars(DestructorNotify)

SpecPool == PoolInit /\ [][PoolNext]_vars /\ PoolFairness

\* C29: every task Submit has queued is taken in submission order, is executed
\* once and never twice, and its future becomes ready, for one or two workers
\* and every interleaving of the workers with two submitting threads and the
\* destructor.
C29_SubmittedTasksRunOnceInOrder ==
  /\ [](/\ eco.took = [k \in 1..Len(eco.took) |-> k]
        /\ \A t \in PoolTasks : eco.executed[t] <= 1 /\ (t \in eco.ready <=> eco.executed[t] = 1))
  /\ \A t \in PoolTasks : (eco.submitted >= t) ~> (eco.executed[t] = 1 /\ t \in eco.ready)

\* Two workers have run all three tasks, each once, the third while the pool
\* was already stopped.
C29_Witness ==
  /\ eco.num_threads = 2
  /\ eco.submitted = MaxPoolTasks
  /\ \A t \in PoolTasks : eco.executed[t] = 1
  /\ eco.stop_
  /\ eco.worker[1] = "finishing" /\ eco.task[1] = MaxPoolTasks

\* C30: WaitForAll returns only in a step that sees the queue empty and no
\* worker between taking a task and reporting it finished, and a thread that
\* sleeps in WaitForAll does return.
C30_WaitForAllReturnsWhenIdle ==
  /\ [][eco'.returned > eco.returned =>
          /\ eco.tasks_ = <<>>
          /\ \A w \in PoolWorkers : eco.worker[w] \notin {"running", "finishing"}]_vars
  /\ \A c \in PoolClients : (eco.client[c] = "waiting") ~> (eco.client[c] = "idle")

\* A thread slept in WaitForAll and has returned from it after every task ran.
C30_Witness ==
  /\ eco.returnedAfterSleep
  /\ eco.submitted = MaxPoolTasks
  /\ \A t \in PoolTasks : eco.executed[t] = 1
  /\ eco.client = [c \in PoolClients |-> "idle"]
  /\ eco.tasks_ = <<>>

=============================================================================
